---- MODULE Spec2Model ----
(***************************************************************************)
(* Amber Balance: the billing-cycle aggregation of AmberCoordinator         *)
(* (custom_components/amber_balance/sensor.py).                             *)
(*                                                                          *)
(* Dates are proleptic Gregorian ordinals (Python's date.toordinal()); an   *)
(* ISO date string "YYYY-MM-DD" is the triple <<y, m, d>> of its fields.    *)
(* Money is an integer count of 1/MoneyScale cent, so that a division by a  *)
(* month or cycle length (28..31) is exact.  An optional value (None or x)  *)
(* is the sequence <<>> or <<x>>.                                           *)
(***************************************************************************)
EXTENDS Integers, Sequences, FiniteSets, TLC

\* ------------------------------------------------------------------ bounds

\* How many days the clock may advance past FirstToday.
MaxDays == 4

\* ------------------------------------------------------- program constants

MIN_BILLING_START_DAY == 1
MAX_BILLING_START_DAY == 28

\* fetch_usage: chunk_end = min(cur + timedelta(days=6), end)
ChunkSpan == 6

\* ------------------------------------------------------------ environment

\* Money unit: lcm(28, 29, 30, 31) parts of a cent.
MoneyScale == 4 * 3 * 5 * 7 * 29 * 31

\* A record's cost is reported in parts of a cent: CostDen parts make a cent.
CostDen == 1 + 1

\* The calendar years the model's dates lie in.
Years == 2023..2024

\* The day the coordinator is constructed: 2024-02-14.
FirstTodayYMD == <<2024, 2, 14>>

\* The configured values: billing start day (as given to the constructor),
\* daily surcharge in cents, monthly subscription in cents.
ConfiguredStartDays == {1, 15}
ConfiguredSurchargeCents == {10}
ConfiguredSubscriptionCents == {62}

None == <<>>
Some(x) == <<x>>

\* The same sequence (the same mapping), with every element evaluated once.
AsSeq(q) == q \o <<>>
AsMap(f) == f @@ <<>>

\* The element of a singleton set. Only({e(x) : x \in {v}}) is e(v) with v
\* evaluated once: the value of a local variable.
Only(S) == CHOOSE x \in S : TRUE

Min(a, b) == IF a <= b THEN a ELSE b
Max(a, b) == IF a >= b THEN a ELSE b

\* ---------------------------------------------------------------- calendar

IsLeap(y) == (y % 4 = 0) /\ ((y % 100 # 0) \/ (y % 400 = 0))

\* calendar.monthrange(y, m)[1]
DaysInMonth(y, m) ==
    IF m = 2 THEN (IF IsLeap(y) THEN 29 ELSE 28)
    ELSE IF m \in {4, 6, 9, 11} THEN 30 ELSE 31

\* The days of a common year before each month.
DaysBeforeMonthTable == <<0, 31, 59, 90, 120, 151, 181, 212, 243, 273, 304, 334>>

DaysBeforeMonth(y, m) ==
    DaysBeforeMonthTable[m] + (IF m > 2 /\ IsLeap(y) THEN 1 ELSE 0)

DaysBeforeYear(y) ==
    LET p == y - 1 IN 365 * p + (p \div 4) - (p \div 100) + (p \div 400)

\* date(y, m, d).toordinal()
ToOrdinal(ymd) == DaysBeforeYear(ymd[1]) + DaysBeforeMonth(ymd[1], ymd[2]) + ymd[3]

\* date.fromordinal(n), as the fields of the date: the one <<y, m, d>> with a
\* day d of month m of year y whose ordinal is n.
FromOrdinal(n) ==
    CHOOSE ymd \in {<<y, m, n - DaysBeforeYear(y) - DaysBeforeMonth(y, m)>> :
                        y \in Years, m \in 1..12} :
        1 <= ymd[3] /\ ymd[3] <= DaysInMonth(ymd[1], ymd[2])

\* d.isoformat() of the date with ordinal n
Isoformat(n) == FromOrdinal(n)

\* date.fromisoformat(k).toordinal()
FromIsoformat(k) == ToOrdinal(k)

YearOf(n) == FromOrdinal(n)[1]
MonthOf(n) == FromOrdinal(n)[2]
DayOf(n) == FromOrdinal(n)[3]

FirstToday == ToOrdinal(FirstTodayYMD)

\* ------------------------------------------------------------ usage source

\* One usage record of the upstream API: rec.get("date"), rec.get("channelType"),
\* rec.get("kwh"), rec.get("cost"); a missing field is None.
Rec(d, ch, kwh, cost) == [date |-> d, channelType |-> ch, kwh |-> kwh, cost |-> cost]

\* What the source holds for the day with ISO date d, first reading.
BaseRecords(d) ==
    << Rec(Some(d), Some("general"), Some(3), Some(51)),
       Rec(Some(d), Some("general"), Some(2), Some(20)),
       Rec(Some(d), Some("feedIn"), Some(-1), Some(-11)) >>

\* What the source holds for the same day after the retailer revised it.
RevisedRecords(d) ==
    << Rec(Some(d), Some("general"), Some(4), Some(33)),
       Rec(Some(d), Some("controlledLoad"), Some(1), Some(5)),
       Rec(Some(d), None, None, Some(3)),
       Rec(Some(d), Some("feedIn"), Some(2), None) >>

\* A day on which the meter of the general channel ran backwards for an
\* interval: a negative quantity on a channel that is not feedIn.
BackfedRecords(d) ==
    << Rec(Some(d), Some("general"), Some(-2), Some(-7)),
       Rec(Some(d), Some("general"), Some(1), Some(5)),
       Rec(Some(d), Some("feedIn"), Some(-3), Some(-11)) >>

RECURSIVE ConcatTo(_, _)
ConcatTo(ss, n) == IF n = 0 THEN <<>> ELSE ConcatTo(ss, n - 1) \o ss[n]

\* The sequences of the sequence of sequences, one after the other.
Concat(ss) == Only({ConcatTo(s, Len(s)) : s \in {ss}})

\* The ways the source may answer one sub-request.
Variants == {"full", "gaps", "revised", "stray"}

\* The body of GET /sites/{id}/usage?startDate=from&endDate=to under variant v.
Response(v, from, to) ==
    LET Days(Records(_)) ==
            Concat(AsSeq([i \in 1..(to - from + 1) |->
                            Only({Records(d) : d \in {Isoformat(from + i - 1)}})]))
    IN  CASE v = "full" -> Days(BaseRecords)
          [] v = "gaps" ->
                Days(LAMBDA d : IF d[3] % 2 = 1 THEN <<>> ELSE BaseRecords(d))
          [] v = "revised" -> Days(RevisedRecords)
          [] v = "stray" ->
                BaseRecords(Isoformat(from - 1)) \o Days(BaseRecords)
                    \o << Rec(None, Some("general"), Some(1), Some(7)) >>
                    \o BaseRecords(Isoformat(to + 1))

\* -------------------------------------------------------------- AmberApi

\* A chunking that asks for eight days at a time.
RECURSIVE FetchChunksOfEight(_, _)
FetchChunksOfEight(cur, end) ==
    IF cur <= end
    THEN Only({<< <<cur, chunk_end>> >> \o FetchChunksOfEight(chunk_end + 1, end) :
                  chunk_end \in {Min(cur + ChunkSpan + 1, end)}})
    ELSE <<>>

\* fetch_usage: the sub-requests <<cur, chunk_end>> in the order issued.
RECURSIVE FetchChunks(_, _)
FetchChunks(cur, end) ==
    IF cur <= end
    THEN Only({<< <<cur, chunk_end>> >> \o FetchChunks(chunk_end + 1, end) :
                  chunk_end \in {Min(cur + ChunkSpan, end)}})
    ELSE <<>>

\* fetch_usage when every sub-request succeeds: records.extend(data) per chunk.
FetchUsage(v, start, end) ==
    Only({Concat(AsSeq([i \in DOMAIN chunks |->
                            Response(v, chunks[i][1], chunks[i][2])])) :
             chunks \in {FetchChunks(start, end)}})

\* ------------------------------------------------------- AmberCoordinator

\* A clamp to the days a long month has.
ClampStartDayTo31(billing_start_day) ==
    Max(MIN_BILLING_START_DAY, Min(31, billing_start_day))

\* __init__: the clamp of the configured billing start day.
ClampStartDay(billing_start_day) ==
    Max(MIN_BILLING_START_DAY, Min(MAX_BILLING_START_DAY, billing_start_day))

\* A next cycle start a fixed 30 days after the start.
NextCycleStartAfter30(start, day) == start + 30

\* _next_cycle_start: the ordinal of date(year, month, self._billing_start_day).
NextCycleStart(start, day) ==
    Only({IF ymd[2] + 1 = 13 THEN ToOrdinal(<<ymd[1] + 1, 1, day>>)
                             ELSE ToOrdinal(<<ymd[1], ymd[2] + 1, day>>) :
             ymd \in {FromOrdinal(start)}})

\* A cycle start that is always in today's month.
CycleStartThisMonth(t, day) ==
    Only({ToOrdinal(<<ymd[1], ymd[2], day>>) : ymd \in {FromOrdinal(t)}})

\* _cycle_bounds: the start of the cycle today lies in.
CycleStart(t, day) ==
    Only({IF ymd[3] >= day
          THEN ToOrdinal(<<ymd[1], ymd[2], day>>)
          ELSE Only({ToOrdinal(<<prev[1], prev[2], day>>) :
                        prev \in {FromOrdinal(ToOrdinal(<<ymd[1], ymd[2], 1>>) - 1)}}) :
             ymd \in {FromOrdinal(t)}})

\* date(y, m, d) raises ValueError unless d is a day of month m of year y.
DateIsValid(ymd) ==
    /\ ymd[2] \in 1..12
    /\ 1 <= ymd[3]
    /\ ymd[3] <= DaysInMonth(ymd[1], ymd[2])

\* _cycle_bounds and _next_cycle_start: the fields of the two dates they
\* construct with the billing start day, the start and the next start.
CycleBoundsDates(t, day) ==
    LET ymd == FromOrdinal(t)
        prev == FromOrdinal(ToOrdinal(<<ymd[1], ymd[2], 1>>) - 1)
        start == IF ymd[3] >= day THEN <<ymd[1], ymd[2], day>>
                                  ELSE <<prev[1], prev[2], day>>
    IN  <<start, IF start[2] + 1 = 13 THEN <<start[1] + 1, 1, day>>
                                      ELSE <<start[1], start[2] + 1, day>> >>

\* _cycle_bounds raises ValueError: one of the two dates does not exist.
CycleBoundsRaises(t, day) ==
    \E ymd \in {CycleBoundsDates(t, day)[i] : i \in 1..2} : ~DateIsValid(ymd)

\* _cycle_bounds: <<start, next_start>> of the cycle today lies in.
CycleBounds(t, day) ==
    Only({<<start, NextCycleStart(start, day)>> : start \in {CycleStart(t, day)}})

\* An end that takes in the day in progress.
CycleEndToday(t, next_start) == Min(t, next_start - 1)

\* _async_update_data: end = min(today - 1 day, next_start - 1 day)
CycleEnd(t, next_start) == Min(t - 1, next_start - 1)

RECURSIVE SumSet(_, _)
\* The sum of f[x] over the finite set S.
SumSet(f, S) ==
    IF S = {} THEN 0
    ELSE LET x == CHOOSE y \in S : TRUE IN f[x] + SumSet(f, S \ {x})

RECURSIVE SumTo(_, _)
SumTo(q, n) == IF n = 0 THEN 0 ELSE SumTo(q, n - 1) + q[n]

\* The sum of the elements of the sequence q.
SumSeq(q) == Only({SumTo(s, Len(s)) : s \in {q}})

Abs(x) == IF x < 0 THEN -x ELSE x

\* value or default
OrElse(opt, default) == IF opt = None THEN default ELSE opt[1]

\* A rounding that drops the part of a cent.
RoundMoneyFloor(total) == total \div CostDen

\* _round_money: quantize(Decimal("1.00"), ROUND_HALF_UP) of a channel total
\* given in 1/CostDen cent; the result is in whole cents.
RoundMoney(total) ==
    IF total >= 0 THEN (2 * total + CostDen) \div (2 * CostDen)
                  ELSE -((2 * (-total) + CostDen) \div (2 * CostDen))

\* _summarize_day: channel_type = rec.get("channelType") or "unknown"
ChannelOf(rec) == OrElse(rec.channelType, "unknown")

\* _summarize_day: by_channel, the cost of each channel, from the records that
\* have a cost.
ByChannel(costed) ==
    AsMap([c \in {ChannelOf(costed[i]) : i \in DOMAIN costed} |->
        SumSeq(AsSeq([i \in DOMAIN costed |->
            IF ChannelOf(costed[i]) = c THEN costed[i].cost[1] ELSE 0]))])

\* _summarize_day: the sum of the rounded totals of the given channels.
ChannelValue(by_channel, channels) ==
    SumSet(AsMap([c \in channels |-> RoundMoney(by_channel[c]) * MoneyScale]),
           channels)

\* _summarize_day, for a non-empty list of records of one date.
SummarizeDay(dkey, records, surcharge_cents, subscription, cycle_length_current) ==
    Only({
        LET by_channel == ByChannel(costed)
            export_kwh ==
                SumSeq(AsSeq([i \in DOMAIN costed |->
                    IF ChannelOf(costed[i]) = "feedIn"
                    THEN Abs(OrElse(costed[i].kwh, 0)) ELSE 0]))
            import_kwh ==
                SumSeq(AsSeq([i \in DOMAIN costed |->
                    IF ChannelOf(costed[i]) = "feedIn"
                    THEN 0 ELSE OrElse(costed[i].kwh, 0)]))
            export_value == ChannelValue(by_channel, DOMAIN by_channel \cap {"feedIn"})
            import_value == ChannelValue(by_channel, DOMAIN by_channel \ {"feedIn"})
            surcharge == surcharge_cents * MoneyScale
            cycle_days == Max(1, cycle_length_current)
            sub == (subscription * MoneyScale) \div cycle_days
        IN  [date |-> dkey,
             import_kwh |-> import_kwh,
             export_kwh |-> export_kwh,
             import_value |-> import_value,
             export_value |-> export_value,
             energy_total |-> import_value + export_value,
             surcharge |-> surcharge,
             subscription |-> sub,
             position |-> import_value + export_value + surcharge + sub] :
        costed \in {SelectSeq(records, LAMBDA r : r.cost # None)}})

\* _summaries: the records grouped by their date, one summary per date.
Summaries(records, surcharge_cents, subscription, cycle_length_current) ==
    Only({
        AsMap([k \in {dated[i].date[1] : i \in DOMAIN dated} |->
            Only({SummarizeDay(k, day_records, surcharge_cents, subscription,
                               cycle_length_current) :
                     day_records \in {SelectSeq(dated, LAMBDA r : r.date[1] = k)}})]) :
        dated \in {SelectSeq(records, LAMBDA r : r.date # None)}})

\* An update that keeps the new summaries only.
UpdateReplacesAll(cache, new) == new

\* dict.update
Update(cache, new) ==
    AsMap([k \in (DOMAIN cache) \cup (DOMAIN new) |->
        IF k \in DOMAIN new THEN new[k] ELSE cache[k]])

\* _merge_daily: the divisor of the placeholder's subscription,
\* calendar.monthrange(cur.year, cur.month)[1].
PlaceholderDays(cur) ==
    Only({DaysInMonth(ymd[1], ymd[2]) : ymd \in {FromOrdinal(cur)}})

\* A placeholder whose position leaves the subscription out.
PlaceholderWithoutSubscription(cur, surcharge_cents, subscription, cycle_length_current) ==
    [date |-> Isoformat(cur),
     import_kwh |-> 0,
     export_kwh |-> 0,
     import_value |-> 0,
     export_value |-> 0,
     energy_total |-> 0,
     surcharge |-> surcharge_cents * MoneyScale,
     subscription |-> (subscription * MoneyScale) \div PlaceholderDays(cur),
     position |-> surcharge_cents * MoneyScale]

\* _merge_daily: the zero-usage record of a day that has no cached summary.
Placeholder(cur, surcharge_cents, subscription, cycle_length_current) ==
    LET surcharge == surcharge_cents * MoneyScale
        sub == (subscription * MoneyScale)
                   \div PlaceholderDays(cur)
    IN  [date |-> Isoformat(cur),
         import_kwh |-> 0,
         export_kwh |-> 0,
         import_value |-> 0,
         export_value |-> 0,
         energy_total |-> 0,
         surcharge |-> surcharge,
         subscription |-> sub,
         position |-> surcharge + sub]

\* _merge_daily: the cache after self._daily_cache.update(...)
MergeCache(cache, records, surcharge_cents, subscription, cycle_length_current) ==
    IF records # <<>>
    THEN Only({Update(cache, new) :
                  new \in {Summaries(records, surcharge_cents, subscription,
                                     cycle_length_current)}})
    ELSE cache

\* A merge that returns only the days that have a cached summary.
DailyOfCachedOnly(cache, start, end, surcharge_cents, subscription, cycle_length_current) ==
    LET days == AsSeq([i \in 1..(end - start + 1) |-> Isoformat(start + i - 1)])
        have == SelectSeq(days, LAMBDA k : k \in DOMAIN cache)
    IN  AsSeq([i \in DOMAIN have |-> cache[have[i]]])

\* _merge_daily: the sequence it returns, one entry per day of [start, end].
DailyOf(cache, start, end, surcharge_cents, subscription, cycle_length_current) ==
    AsSeq([i \in 1..(end - start + 1) |->
        Only({IF dkey \in DOMAIN cache
              THEN cache[dkey]
              ELSE Placeholder(start + i - 1, surcharge_cents, subscription,
                               cycle_length_current) :
                 dkey \in {Isoformat(start + i - 1)}})])

\* A purge that drops nothing.
PurgeNothing(cache, start, end) == cache

\* _purge_out_of_range_cache
PurgeOutOfRange(cache, start, end) ==
    LET keep == {k \in DOMAIN cache :
                    ~(FromIsoformat(k) < start \/ FromIsoformat(k) > end)}
    IN  AsMap([k \in keep |-> cache[k]])

\* min(daily, key=...): the index of the first entry with the least key,
\* keys being the sequence of the entries' keys.
FirstMin(keys) ==
    Only({CHOOSE i \in DOMAIN k :
              /\ \A j \in DOMAIN k : k[i] <= k[j]
              /\ \A j \in 1..(i - 1) : k[j] > k[i] :
             k \in {keys}})

\* A selection that takes the last of the entries with the greatest key.
LastMax(keys) ==
    Only({CHOOSE i \in DOMAIN k :
              /\ \A j \in DOMAIN k : k[i] >= k[j]
              /\ \A j \in (i + 1)..Len(k) : k[j] < k[i] :
             k \in {keys}})

\* max(daily, key=...): the index of the first entry with the greatest key.
FirstMax(keys) ==
    Only({CHOOSE i \in DOMAIN k :
              /\ \A j \in DOMAIN k : k[i] >= k[j]
              /\ \A j \in 1..(i - 1) : k[j] < k[i] :
             k \in {keys}})

\* _totals: the accumulated fields of a non-empty daily sequence, in the order
\* import_kwh, export_kwh, net_kwh, import_value, export_value, energy_total,
\* surcharge, subscription, fees, position.
Accumulate(daily) ==
    LET Sum(F(_)) == SumSeq(AsSeq([i \in DOMAIN daily |-> F(daily[i])]))
    IN  [import_kwh |-> Sum(LAMBDA d : d.import_kwh),
         export_kwh |-> Sum(LAMBDA d : d.export_kwh),
         net_kwh |-> Sum(LAMBDA d : d.export_kwh - d.import_kwh),
         import_value |-> Sum(LAMBDA d : d.import_value),
         export_value |-> Sum(LAMBDA d : d.export_value),
         energy_total |-> Sum(LAMBDA d : d.energy_total),
         surcharge |-> Sum(LAMBDA d : d.surcharge),
         subscription |-> Sum(LAMBDA d : d.subscription),
         fees |-> Sum(LAMBDA d : d.surcharge + d.subscription),
         position |-> Sum(LAMBDA d : d.position)]

\* Derived metrics whose average spreads the position over the whole cycle.
DerivedOverCycle(position, days_elapsed, cycle_length) ==
    [average_daily_cost |->
        IF days_elapsed > 0 THEN <<position, cycle_length>> ELSE <<0, 1>>,
     projected_month_total |->
        IF days_elapsed > 0 THEN <<position, cycle_length, cycle_length>>
                            ELSE <<0, 1, 1>>,
     days_elapsed |-> days_elapsed,
     days_remaining |->
        IF days_elapsed > 0 THEN Max(cycle_length - days_elapsed, 0)
                            ELSE cycle_length]

\* _totals: the derived metrics. The two quotients are kept unevaluated:
\* average_daily_cost is <<numerator, denominator>> and projected_month_total
\* is <<numerator, denominator, factor>>, the average times the cycle length.
Derived(position, days_elapsed, cycle_length) ==
    [average_daily_cost |->
        IF days_elapsed > 0 THEN <<position, days_elapsed>> ELSE <<0, 1>>,
     projected_month_total |->
        IF days_elapsed > 0 THEN <<position, days_elapsed, cycle_length>>
                            ELSE <<0, 1, 1>>,
     days_elapsed |-> days_elapsed,
     days_remaining |->
        IF days_elapsed > 0 THEN Max(cycle_length - days_elapsed, 0)
                            ELSE cycle_length]

\* A count of the days that are not in credit.
DaysNotInCredit(daily) ==
    Cardinality({i \in DOMAIN daily : daily[i].position >= 0})

\* _totals: sum(1 for d in daily if d["position"] < 0)
DaysInCredit(daily) ==
    Cardinality({i \in DOMAIN daily : daily[i].position < 0})

\* _totals: sum(1 for d in daily if d["position"] > 0)
DaysOwing(daily) ==
    Cardinality({i \in DOMAIN daily : daily[i].position > 0})

\* _totals: the statistics of the days.
Statistics(daily) ==
    IF daily # <<>>
    THEN Only({[best_day |-> best.position,
                best_day_date |-> Some(best.date),
                worst_day |-> worst.position,
                worst_day_date |-> Some(worst.date),
                most_average_day |-> most_avg.position,
                most_average_day_date |-> Some(most_avg.date),
                days_in_credit |-> DaysInCredit(daily),
                days_owing |-> DaysOwing(daily)] :
            best \in {daily[FirstMin(AsSeq([i \in DOMAIN daily |->
                                              daily[i].position]))]},
            worst \in {daily[FirstMax(AsSeq([i \in DOMAIN daily |->
                                               daily[i].position]))]},
            most_avg \in {daily[FirstMin(AsSeq([i \in DOMAIN daily |->
                                                  Abs(daily[i].position)]))]}})
    ELSE [best_day |-> 0, best_day_date |-> None,
          worst_day |-> 0, worst_day_date |-> None,
          most_average_day |-> 0, most_average_day_date |-> None,
          days_in_credit |-> 0, days_owing |-> 0]

\* _totals
Totals(daily, cycle_length_arg) ==
    Only({agg @@ Derived(agg.position, Len(daily), Max(1, cycle_length_arg))
              @@ Statistics(daily) :
             agg \in {Accumulate(daily)}})

\* _async_update_data: the payload of the first day of a cycle when there is
\* no previous one.
EmptyPayload(start, cycle_length_current) ==
    [range_start |-> Isoformat(start),
     range_end |-> Isoformat(start),
     daily |-> <<>>,
     totals |-> Totals(<<>>, cycle_length_current)]

\* _async_update_data: the payload built from the daily sequence.
Payload(daily, start, end, cycle_length_current) ==
    [range_start |-> Isoformat(start),
     range_end |->
        IF daily # <<>> THEN Isoformat(FromIsoformat(daily[Len(daily)].date))
                        ELSE Isoformat(end),
     daily |-> daily,
     totals |-> Totals(daily, cycle_length_current)]

\* A first-day path that always starts from an empty payload.
FirstDayPayloadEmpty(previous, start, cycle_length_current) ==
    EmptyPayload(start, cycle_length_current)

\* _async_update_data: what the first-day path returns.
FirstDayPayload(previous, start, cycle_length_current) ==
    IF previous # None THEN previous[1]
    ELSE EmptyPayload(start, cycle_length_current)

\* A reset that clears the cache on every refresh.
ResetCacheAlways(cache, cached_start, start) == <<>>

\* A reset that never clears the cache.
ResetCacheNever(cache, cached_start, start) == cache

\* _async_update_data: the cache once the cycle start has been compared with
\* the remembered one.
ResetCache(cache, cached_start, start) ==
    IF cached_start # Some(start) THEN <<>> ELSE cache

\* max(date.fromisoformat(k) for k in self._daily_cache)
LastCached(cache) ==
    Only({CHOOSE n \in dates : \A m \in dates : m <= n :
             dates \in {{FromIsoformat(k) : k \in DOMAIN cache}}})

\* A fetch start that always asks for the whole cycle again.
FetchStartWholeCycle(cache, start, end) == Some(start)

\* A fetch start one day past the latest cached date.
FetchStartAfterLast(cache, start, end) ==
    IF DOMAIN cache # {}
    THEN IF end > LastCached(cache) THEN Some(Max(start, LastCached(cache) + 1))
                                    ELSE None
    ELSE Some(start)

\* A fetch start that also fetches when the cache reaches end.
FetchStartAtEnd(cache, start, end) ==
    IF DOMAIN cache # {}
    THEN IF end >= LastCached(cache) THEN Some(Max(start, LastCached(cache)))
                                     ELSE None
    ELSE Some(start)

\* _async_update_data: fetch_start, None when nothing is to be fetched.
FetchStart(cache, start, end) ==
    IF DOMAIN cache # {}
    THEN IF end > LastCached(cache) THEN Some(Max(start, LastCached(cache)))
                                    ELSE None
    ELSE Some(start)

\* if fetch_start and fetch_start <= end
NeedsFetch(fetch_start, end) == fetch_start # None /\ fetch_start[1] <= end

\* -------------------------------------------------------------------- state

VARIABLES
    today,                  \* datetime.now(self._nem_tz).date(), as an ordinal
    billing_start_day,      \* self._billing_start_day
    surcharge_cents,        \* self._surcharge_cents
    subscription,           \* self._subscription, in cents
    daily_cache,            \* self._daily_cache: ISO date -> summary
    cached_cycle_start,     \* self._cached_cycle_start
    cycle_length_current,   \* self._cycle_length_current
    last_update_time,       \* self.last_update_time
    previous_payload,       \* self._previous_payload
    outcome,                \* how the last refresh ended
    returned,               \* the payload the last refresh returned
    window,                 \* <<start, end>> the last refresh computed
    requests,               \* the sub-requests the last refresh issued
    answered,               \* how the source answered them, when it answered all
    call,                   \* the last direct call of a method: name, inputs, result
    in_flight,              \* the executions of _async_update_data suspended in
                            \* await self._api.fetch_usage(...), with their locals
    refreshing,             \* AmberRefreshButton._refreshing
    bucket,                 \* site_bucket of async_setup_entry: for each site
                            \* id the attributes of its coordinator, the
                            \* attribute _daily_cache being a reference
    heap,                   \* the dict objects the references point to
    config_entries,         \* hass.config_entries: entry id -> data and options
    hass_data,              \* hass.data.get(DOMAIN): entry id -> entry bucket
    is_running,             \* hass.is_running
    numbers,                \* the AmberFeeNumber entities of the entries
    platforms               \* the platforms forwarded so far, entry by entry

vars == <<today, billing_start_day, surcharge_cents, subscription, daily_cache,
          cached_cycle_start, cycle_length_current, last_update_time,
          previous_payload, outcome, returned, window, requests, answered,
          call, in_flight, refreshing, bucket, heap, config_entries,
          hass_data, is_running, numbers, platforms>>

\* What triggers a refresh: the update interval of the coordinator, and the
\* refresh button.
Tasks == {"periodic", "manual"}

tasks == <<in_flight, refreshing>>

config == <<billing_start_day, surcharge_cents, subscription>>

\* The coordinators of the sites of an entry and their dicts.
sites == <<bucket, heap>>

\* The host: its config entries, its shared data, its entities.
hass == <<config_entries, hass_data, is_running, numbers, platforms>>

\* The host before any config entry exists.
NoEntries ==
    /\ config_entries = <<>>
    /\ hass_data = None
    /\ is_running = TRUE
    /\ numbers = <<>>
    /\ platforms = <<>>

\* The locals of _async_update_data in the current state.
Start == CycleBounds(today, billing_start_day)[1]
NextStart == CycleBounds(today, billing_start_day)[2]
End == CycleEnd(today, NextStart)
CycleLength == NextStart - Start

\* _async_update_data, lines 356-359: today's cycle, as the record of start,
\* end and the cycle length.
Cycle ==
    Only({[start |-> bounds[1],
           end |-> CycleEnd(today, bounds[2]),
           length |-> bounds[2] - bounds[1]] :
             bounds \in {CycleBounds(today, billing_start_day)}})

\* AmberCoordinator.__init__
Init ==
    /\ today = FirstToday
    /\ billing_start_day \in {ClampStartDay(d) : d \in ConfiguredStartDays}
    /\ surcharge_cents \in ConfiguredSurchargeCents
    /\ subscription \in ConfiguredSubscriptionCents
    /\ daily_cache = <<>>
    /\ cached_cycle_start = None
    /\ cycle_length_current = DaysInMonth(YearOf(FirstToday), MonthOf(FirstToday))
    /\ last_update_time = None
    /\ previous_payload = None
    /\ outcome = "none"
    /\ returned = None
    /\ window = None
    /\ requests = <<>>
    /\ answered = None
    /\ call = None
    /\ in_flight = [t \in Tasks |-> None]
    /\ refreshing = FALSE
    /\ bucket = <<>>
    /\ heap = <<>>
    /\ NoEntries

\* The calendar day changes.
Tick ==
    /\ today < FirstToday + MaxDays
    /\ today' = today + 1
    /\ UNCHANGED <<call, tasks, sites, config, hass, daily_cache, cached_cycle_start, cycle_length_current,
                   last_update_time, previous_payload, outcome, returned, window,
                   requests, answered>>

\* _async_update_data on the first day of a cycle (end < start).
RefreshNoUsage ==
    \E c \in {Cycle} :
        /\ c.end < c.start
        /\ cycle_length_current' = c.length
        /\ last_update_time' = Some(today)
        /\ \E payload \in {FirstDayPayload(previous_payload, c.start, c.length)} :
              /\ previous_payload' = Some(payload)
              /\ returned' = Some(payload)
        /\ outcome' = "returned"
        /\ window' = Some(<<c.start, c.end>>)
        /\ requests' = <<>>
        /\ answered' = None
        /\ UNCHANGED <<today, call, tasks, sites, config, hass, daily_cache, cached_cycle_start>>

\* The log of the sub-requests of one fetch_usage call: the first n of the
\* chunks were issued, and the last of them succeeded or not.
RequestLog(chunks, n, last_ok) ==
    AsSeq([i \in 1..n |->
        [from |-> chunks[i][1], to |-> chunks[i][2], ok |-> (i < n) \/ last_ok]])

\* A failure handler that forgets the previous payload.
FetchFailureDropsPayload(previous, update_time) ==
    [outcome |-> "UpdateFailed",
     returned |-> None,
     previous_payload |-> None,
     last_update_time |-> update_time]

\* _async_update_data: except Exception as err: raise UpdateFailed(...) from err.
\* Nothing after the fetch runs: the payload and the update time stay.
FetchFailure(previous, update_time) ==
    [outcome |-> "UpdateFailed",
     returned |-> None,
     previous_payload |-> previous,
     last_update_time |-> update_time]

\* A failure that keeps what the sub-requests before the failing one returned.
CacheOfPartialFetch(cache, partial, surcharge, sub, length) ==
    MergeCache(cache, partial, surcharge, sub, length)

\* fetch_usage, lines 301-309, raising: the records of the sub-requests before
\* the failing one are in its local list and go with it; _merge_daily is not
\* reached and the cache stays as it was when the fetch was issued.
CacheAfterFailure(cache, partial, surcharge, sub, length) == cache

\* _async_update_data when a sub-request of fetch_usage raises: the n-th
\* sub-request is the one that fails, after the sub-requests before it were
\* answered (variant v of the source).
RefreshFetchFailed ==
    \E c \in {Cycle} :
        /\ c.start <= c.end
        /\ \E cache \in {ResetCache(daily_cache, cached_cycle_start, c.start)} :
           \E fetch_start \in {FetchStart(cache, c.start, c.end)} :
              /\ NeedsFetch(fetch_start, c.end)
              /\ \E chunks \in {FetchChunks(fetch_start[1], c.end)} :
                 \E n \in DOMAIN chunks :
                 \E v \in Variants :
                    /\ requests' = RequestLog(chunks, n, FALSE)
                    /\ daily_cache' = CacheAfterFailure(cache,
                          FetchUsage(v, fetch_start[1], chunks[n][1] - 1),
                          surcharge_cents, subscription, c.length)
        /\ cached_cycle_start' = Some(c.start)
        /\ cycle_length_current' = c.length
        /\ \E raised \in {FetchFailure(previous_payload, last_update_time)} :
              /\ outcome' = raised.outcome
              /\ returned' = raised.returned
              /\ previous_payload' = raised.previous_payload
              /\ last_update_time' = raised.last_update_time
        /\ window' = Some(<<c.start, c.end>>)
        /\ answered' = None
        /\ UNCHANGED <<today, call, tasks, sites, config, hass>>

\* _async_update_data from the merge on: c is the cycle, cache the cache after
\* the reset, records are what was fetched.
Complete(c, cache, records) ==
    \E merged \in {MergeCache(cache, records, surcharge_cents, subscription,
                              c.length)} :
    \E daily \in {DailyOf(merged, c.start, c.end, surcharge_cents, subscription,
                          c.length)} :
    \E payload \in {Payload(daily, c.start, c.end, c.length)} :
        /\ daily_cache' = PurgeOutOfRange(merged, c.start, c.end)
        /\ cached_cycle_start' = Some(c.start)
        /\ cycle_length_current' = c.length
        /\ last_update_time' = Some(today)
        /\ previous_payload' = Some(payload)
        /\ returned' = Some(payload)
        /\ outcome' = "returned"
        /\ window' = Some(<<c.start, c.end>>)
        /\ UNCHANGED <<today, call, tasks, sites, config, hass>>

\* _async_update_data when fetch_usage answers (variant v of the source).
RefreshFetched ==
    \E c \in {Cycle} :
        /\ c.start <= c.end
        /\ \E cache \in {ResetCache(daily_cache, cached_cycle_start, c.start)} :
           \E fetch_start \in {FetchStart(cache, c.start, c.end)} :
              /\ NeedsFetch(fetch_start, c.end)
              /\ \E chunks \in {FetchChunks(fetch_start[1], c.end)} :
                    requests' = RequestLog(chunks, Len(chunks), TRUE)
              /\ \E v \in Variants :
                 \E records \in {FetchUsage(v, fetch_start[1], c.end)} :
                    /\ answered' = Some(v)
                    /\ Complete(c, cache, records)

\* _async_update_data when the cache covers the cycle through end: no fetch.
RefreshFromCache ==
    \E c \in {Cycle} :
        /\ c.start <= c.end
        /\ \E cache \in {ResetCache(daily_cache, cached_cycle_start, c.start)} :
           \E fetch_start \in {FetchStart(cache, c.start, c.end)} :
              /\ ~NeedsFetch(fetch_start, c.end)
              /\ requests' = <<>>
              /\ answered' = None
              /\ Complete(c, cache, <<>>)

Next ==
    \/ Tick
    \/ RefreshNoUsage
    \/ RefreshFetchFailed
    \/ RefreshFetched
    \/ RefreshFromCache

Spec == Init /\ [][Next]_vars

\* The update interval of the coordinator (__init__, line 342) runs the
\* refresh again and again, also after a refresh that raised, and the usage
\* source, asked again and again, answers in the end.
RetrySpec ==
    /\ Init
    /\ [][Next]_vars
    /\ SF_vars(RefreshFetched)
    /\ WF_vars(RefreshNoUsage)
    /\ WF_vars(RefreshFromCache)

\* ------------------------------------------------------ methods, one by one

\* The dates a method is called with: 2023-02-01 .. 2024-03-31 (a February
\* of 28 days, one of 29 days and the turn of the year between them).
CallDates == ToOrdinal(<<2023, 2, 1>>)..ToOrdinal(<<2024, 3, 31>>)

\* The values self._billing_start_day may hold when _cycle_bounds is called.
StartDays == 1..28

\* The state apart from the call record.
coordinator == <<today, config, tasks, sites, hass, daily_cache, cached_cycle_start,
                 cycle_length_current, last_update_time, previous_payload,
                 outcome, returned, window, requests, answered>>

\* self._cycle_bounds(t) of a coordinator whose billing start day is day.
CallCycleBounds ==
    /\ call = None
    /\ \E t \in CallDates, day \in StartDays :
        /\ call' = Some([method |-> "_cycle_bounds", today |-> t, day |-> day,
                         result |-> CycleBounds(t, day)])
        /\ UNCHANGED coordinator

\* The billing start days a coordinator may be constructed with, valid or
\* not.
AnyStartDays == {-5, 0, 1, 15, 28, 29, 30, 31, 32, 100}

\* AmberCoordinator(..., billing_start_day=d, ...) followed by
\* self._cycle_bounds(t) of the new coordinator: the clamp of line 347, then
\* the dates of lines 471-487, which raise ValueError when they do not exist.
CallConstructThenBounds ==
    /\ call = None
    /\ \E t \in CallDates, d \in AnyStartDays :
       \E day \in {ClampStartDay(d)} :
          /\ billing_start_day' = day
          /\ call' = Some([method |-> "__init__, _cycle_bounds",
                           configured |-> d, today |-> t, day |-> day,
                           raised |-> CycleBoundsRaises(t, day),
                           result |-> IF CycleBoundsRaises(t, day)
                                      THEN <<>> ELSE CycleBounds(t, day)])
          /\ UNCHANGED <<today, surcharge_cents, subscription, tasks, sites, hass, daily_cache,
                         cached_cycle_start, cycle_length_current,
                         last_update_time, previous_payload, outcome, returned,
                         window, requests, answered>>

\* The ranges fetch_usage is called with: a start and the days after it
\* through end, up to the longest cycle.
FetchStarts == {ToOrdinal(<<2023, 12, 15>>), ToOrdinal(<<2024, 2, 1>>),
                ToOrdinal(<<2024, 2, 14>>)}
MaxSpan == 30

\* self._api.fetch_usage(start, end) with start <= end, every sub-request
\* answered (variant v of the source): the sub-requests issued and the result.
CallFetchUsage ==
    /\ call = None
    /\ \E start \in FetchStarts, span \in 0..MaxSpan, v \in Variants :
        /\ call' = Some([method |-> "fetch_usage", start |-> start,
                         end |-> start + span, variant |-> v,
                         requests |-> RequestLog(FetchChunks(start, start + span),
                                        Len(FetchChunks(start, start + span)), TRUE),
                         result |-> FetchUsage(v, start, start + span)])
        /\ UNCHANGED coordinator

\* What can go wrong with one GET of the usage: the request times out, the
\* status is not 200, the body is not JSON, or the body is JSON but not a
\* list (an object or null).
Problems == {"timeout", "status", "invalid JSON", "not a list"}

\* _get, lines 315-332: RuntimeError is raised on a status other than 200, on
\* a body resp.json() cannot decode and on asyncio.TimeoutError; any decoded
\* body is returned.
GetRaises(problem) == problem \in {"timeout", "status", "invalid JSON"}

\* fetch_usage, lines 301-310, when the n-th sub-request runs into the
\* problem and the others are answered with lists (variant v): either _get
\* raises and the call ends there, or the body that is not a list is skipped
\* by isinstance(data, list) and the loop goes on.
FetchUsageWithProblem(v, start, end, n, problem) ==
    Only({IF GetRaises(problem)
          THEN [raised |-> TRUE,
                requests |-> RequestLog(chunks, n, FALSE),
                records |-> <<>>]
          ELSE [raised |-> FALSE,
                requests |-> RequestLog(chunks, Len(chunks), TRUE),
                records |-> Concat(AsSeq([i \in DOMAIN chunks |->
                               IF i = n THEN <<>>
                               ELSE Response(v, chunks[i][1], chunks[i][2])]))] :
             chunks \in {FetchChunks(start, end)}})

\* The longest range fetch_usage is called with when a sub-request runs into
\* a problem, in days past start.
MaxProblemSpan == 14

\* self._api.fetch_usage(start, end) with start <= end, one sub-request of
\* which runs into a problem.
CallFetchUsageWithProblem ==
    /\ call = None
    /\ \E start \in FetchStarts, span \in 0..MaxProblemSpan, v \in {"full", "gaps"},
          problem \in Problems :
       \E n \in DOMAIN FetchChunks(start, start + span) :
       \E done \in {FetchUsageWithProblem(v, start, start + span, n, problem)} :
          /\ call' = Some([method |-> "fetch_usage, _get", start |-> start,
                           end |-> start + span, variant |-> v,
                           problem |-> problem, at |-> n,
                           requests |-> done.requests,
                           raised |-> done.raised,
                           result |-> done.records])
          /\ UNCHANGED coordinator

\* The money fields of a daily entry.
MoneyFields == {"import_value", "export_value", "energy_total", "surcharge",
                "subscription", "position"}

\* float(...) of a decimal value (_summarize_day, lines 545-550; float(...)
\* / 100.0 in _merge_daily, lines 444-445): the nearest binary double, which
\* is the value or off it by less than one of the Ulps parts of the model's
\* money unit, on either side.  Zero is exact.
Ulps == 8
FloatErrors == {-1, 0, 1}
Float(value, err) == IF value = 0 THEN 0 ELSE value * Ulps + err

\* The subscriptions and cycle lengths _summarize_day is called with: 0.62
\* and 0.45 a cycle, over cycles of 28 to 31 days (0.45 over 30 days is a
\* cent and a half a day).
CallSubscriptionCents == {62, 45}
CallCycleLengths == 28..31

\* self._summarize_day(dkey, records) for the records of one day, and the
\* floats the returned dict holds.
CallSummarizeDay ==
    /\ call = None
    /\ \E sub \in CallSubscriptionCents, length \in CallCycleLengths,
          records \in {BaseRecords(Isoformat(FirstToday - 1)),
                       RevisedRecords(Isoformat(FirstToday - 1)),
                       BackfedRecords(Isoformat(FirstToday - 1))} :
       \E entry \in {SummarizeDay(Isoformat(FirstToday - 1), records,
                                  surcharge_cents, sub, length)} :
       \E err \in [MoneyFields -> FloatErrors] :
          /\ call' = Some([method |-> "_summarize_day",
                           subscription |-> sub, cycle_length |-> length,
                           records |-> records,
                           result |-> entry,
                           floats |-> [f \in MoneyFields |->
                                          Float(entry[f], err[f])]])
          /\ UNCHANGED coordinator

\* The zero-usage entry _merge_daily appends for a day cur that has no cached
\* summary: surcharge and subscription are floats, and position is their
\* float sum.
CallPlaceholder ==
    /\ call = None
    /\ \E sub \in CallSubscriptionCents, cur \in FetchStarts :
       \E entry \in {Placeholder(cur, surcharge_cents, sub, cycle_length_current)} :
       \E err \in [{"surcharge", "subscription"} -> FloatErrors] :
       \E surcharge \in {Float(entry.surcharge, err["surcharge"])} :
       \E subscr \in {Float(entry.subscription, err["subscription"])} :
          /\ call' = Some([method |-> "_merge_daily",
                           subscription |-> sub, cur |-> cur,
                           result |-> entry,
                           floats |-> [import_value |-> 0,
                                       export_value |-> 0,
                                       energy_total |-> 0,
                                       surcharge |-> surcharge,
                                       subscription |-> subscr,
                                       position |-> surcharge + subscr]])
          /\ UNCHANGED coordinator

\* The days whose cycles are summed whole: with the start days 1 and 15 the
\* cycles 2023-02-01 (28 days, one calendar month), 2023-02-15 (28 days),
\* 2024-02-01 (29 days) and 2024-01-15 (31 days, ending in a month of 29).
WholeCycleDays == {ToOrdinal(<<2023, 2, 20>>), ToOrdinal(<<2024, 2, 14>>)}

\* What the source holds for a whole cycle: every day, every other day, or
\* nothing.
WholeCycleRecords(v, start, end) ==
    IF v = "none" THEN <<>> ELSE FetchUsage(v, start, end)

\* self._merge_daily(records, start, next_start - 1 day) followed by
\* self._totals(daily, cycle_length), lines 401 and 403, of a coordinator
\* with an empty cache that stored the cycle length (line 359): the daily
\* sequence has one entry for every day of the cycle.
CallWholeCycle ==
    /\ call = None
    /\ \E t \in WholeCycleDays, v \in {"full", "gaps", "none"} :
       \E b \in {CycleBounds(t, billing_start_day)} :
       \E length \in {b[2] - b[1]} :
       \E merged \in {MergeCache(<<>>, WholeCycleRecords(v, b[1], b[2] - 1),
                                 surcharge_cents, subscription, length)} :
       \E daily \in {DailyOf(merged, b[1], b[2] - 1, surcharge_cents,
                             subscription, length)} :
          /\ call' = Some([method |-> "_merge_daily, _totals",
                           start |-> b[1], cycle_length |-> length,
                           variant |-> v, daily |-> daily,
                           result |-> Totals(daily, length)])
          /\ daily_cache' = merged
          /\ cycle_length_current' = length
          /\ UNCHANGED <<today, config, tasks, sites, hass, cached_cycle_start, last_update_time,
                         previous_payload, outcome, returned, window, requests,
                         answered>>

\* The positions of the days _totals is called with: credit, nothing, owing,
\* in cents.
Positions == {-40, -15, 0, 15, 40}

\* The lengths of the daily sequences _totals is called with: none to MaxDaily
\* days with every choice of positions, and one sequence longer than any
\* cycle, whose positions repeat.
MaxDaily == 3
LongDaily == 32
DailyLengths == (0..MaxDaily) \cup {LongDaily}

\* A daily entry of the date cur with the given position (in cents): the
\* fees are those of _summarize_day, and the energy total is the rest.
DayWithPosition(cur, position, cycle_length) ==
    LET surcharge == surcharge_cents * MoneyScale
        sub == (subscription * MoneyScale) \div Max(1, cycle_length)
        energy_total == position * MoneyScale - surcharge - sub
    IN  [date |-> Isoformat(cur),
         import_kwh |-> 0,
         export_kwh |-> 0,
         import_value |-> Max(energy_total, 0),
         export_value |-> Min(energy_total, 0),
         energy_total |-> energy_total,
         surcharge |-> surcharge,
         subscription |-> sub,
         position |-> position * MoneyScale]

\* self._totals(daily, cycle_length) for a daily sequence in date order.
CallTotals ==
    /\ call = None
    /\ \E n \in DailyLengths, length \in {28, 31} :
       \E pos \in [1..Min(n, MaxDaily) -> Positions] :
       \E daily \in {AsSeq([i \in 1..n |->
                        DayWithPosition(ToOrdinal(<<2024, 2, 1>>) + i - 1,
                                        pos[((i - 1) % MaxDaily) + 1], length)])} :
          /\ call' = Some([method |-> "_totals", daily |-> daily,
                           cycle_length |-> length,
                           result |-> Totals(daily, length)])
          /\ UNCHANGED coordinator

CallNext ==
    \/ CallConstructThenBounds
    \/ CallTotals
    \/ CallFetchUsageWithProblem
    \/ CallCycleBounds
    \/ CallFetchUsage
    \/ CallSummarizeDay
    \/ CallPlaceholder
    \/ CallWholeCycle

\* The methods of the coordinator and of the API client called on their own,
\* with inputs drawn from bounded sets: a behaviour is one call.
CallSpec == Init /\ [][CallNext]_vars

\* ------------------------------------------ refreshes while the source is down

\* The dates an outage is followed on: February and March of a common year,
\* and December to March around the turn into a leap year, so that cycles of
\* 28, 29, 30 and 31 days all occur.
OutageDates ==
    (ToOrdinal(<<2023, 2, 1>>)..ToOrdinal(<<2023, 3, 31>>))
        \cup (ToOrdinal(<<2023, 12, 1>>)..ToOrdinal(<<2024, 3, 31>>))

\* A coordinator constructed on any of the dates, with any valid billing start
\* day, whose clock stands still.
OutageInit ==
    /\ today \in OutageDates
    /\ billing_start_day \in StartDays
    /\ surcharge_cents \in ConfiguredSurchargeCents
    /\ subscription \in ConfiguredSubscriptionCents
    /\ daily_cache = <<>>
    /\ cached_cycle_start = None
    /\ cycle_length_current = DaysInMonth(YearOf(today), MonthOf(today))
    /\ last_update_time = None
    /\ previous_payload = None
    /\ outcome = "none"
    /\ returned = None
    /\ window = None
    /\ requests = <<>>
    /\ answered = None
    /\ call = None
    /\ in_flight = [t \in Tasks |-> None]
    /\ refreshing = FALSE
    /\ bucket = <<>>
    /\ heap = <<>>
    /\ NoEntries

\* Every request to the usage source fails.
OutageNext ==
    \/ RefreshNoUsage
    \/ RefreshFetchFailed

OutageSpec == OutageInit /\ [][OutageNext]_vars

\* ------------------------------------------------- refreshes that overlap

\* _async_update_data takes no lock, and the one asyncio.Lock of the
\* integration (async_setup_entry, lines 210-216) guards the platform set-up
\* only.  An execution is therefore two steps: the code up to
\* await self._api.fetch_usage(...), where it is suspended, and the code from
\* the answer of the fetch on.  DataUpdateCoordinator is the library's: each of
\* its refreshes is taken to run the update_method it was constructed with.

\* _async_update_data, lines 356-394, when the fetch is needed: the cycle
\* length is stored, the cache is reset when the cycle changed, and the
\* execution is suspended in the fetch with its locals start, end, fetch_start.
Begin(task) ==
    \E c \in {Cycle} :
        /\ c.start <= c.end
        /\ in_flight[task] = None
        /\ \E cache \in {ResetCache(daily_cache, cached_cycle_start, c.start)} :
           \E fetch_start \in {FetchStart(cache, c.start, c.end)} :
              /\ NeedsFetch(fetch_start, c.end)
              /\ daily_cache' = cache
              /\ in_flight' = [in_flight EXCEPT ![task] =
                    Some([start |-> c.start, end |-> c.end,
                          fetch_start |-> fetch_start[1]])]
        /\ cached_cycle_start' = Some(c.start)
        /\ cycle_length_current' = c.length
        /\ UNCHANGED <<today, config, sites, hass, last_update_time, previous_payload, outcome,
                       returned, window, requests, answered>>

\* The refresh the update interval of the coordinator starts (__init__, lines
\* 339-342); the model holds one such execution at a time.
PeriodicBegin ==
    /\ Begin("periodic")
    /\ UNCHANGED <<call, refreshing>>

\* AmberRefreshButton.async_press, lines 141-154: the press of a button that
\* is not refreshing, up to the suspension of the refresh it starts.
PressBegin ==
    /\ ~refreshing
    /\ refreshing' = TRUE
    /\ Begin("manual")
    /\ call' = Some([method |-> "async_press", result |-> "refresh started"])

\* AmberRefreshButton.async_press, lines 141-145: the press of a button whose
\* own refresh has not finished returns at once.
PressIgnored ==
    /\ refreshing
    /\ call' = Some([method |-> "async_press", result |-> "already in progress"])
    /\ UNCHANGED <<coordinator>>

\* A finally clause that never clears the flag.
ReleasedNever(task) == refreshing

\* AmberRefreshButton.available, lines 126-129: the availability of the
\* coordinator entity (the success of the last update) and not refreshing.
Available(last_update_success, flag) == last_update_success /\ ~flag

\* async_press, finally: the flag is cleared when the refresh of the button
\* ends, however it ends.
Released(task) == IF task = "manual" THEN FALSE ELSE refreshing

\* _async_update_data, lines 393-419, of a suspended execution whose fetch
\* answers (variant v of the source): the merge, the purge and the totals use
\* the locals of the execution and the cache and cycle length of the moment.
Answer(task) ==
    /\ in_flight[task] # None
    /\ \E loc \in {in_flight[task][1]} :
       \E c \in {[start |-> loc.start, end |-> loc.end,
                  length |-> cycle_length_current]} :
       \E v \in Variants :
       \E records \in {FetchUsage(v, loc.fetch_start, loc.end)} :
       \E merged \in {MergeCache(daily_cache, records, surcharge_cents,
                                 subscription, c.length)} :
       \E daily \in {DailyOf(merged, c.start, c.end, surcharge_cents,
                             subscription, c.length)} :
       \E payload \in {Payload(daily, c.start, c.end, c.length)} :
       \E chunks \in {FetchChunks(loc.fetch_start, loc.end)} :
          /\ daily_cache' = PurgeOutOfRange(merged, c.start, c.end)
          /\ last_update_time' = Some(today)
          /\ previous_payload' = Some(payload)
          /\ returned' = Some(payload)
          /\ outcome' = "returned"
          /\ window' = Some(<<c.start, c.end>>)
          /\ requests' = RequestLog(chunks, Len(chunks), TRUE)
          /\ answered' = Some(v)
    /\ in_flight' = [in_flight EXCEPT ![task] = None]
    /\ refreshing' = Released(task)
    /\ UNCHANGED <<today, call, config, sites, hass, cached_cycle_start, cycle_length_current>>

\* _async_update_data, lines 395-399, of a suspended execution whose fetch
\* raises in its n-th sub-request.
Fail(task) ==
    /\ in_flight[task] # None
    /\ \E loc \in {in_flight[task][1]} :
          /\ \E chunks \in {FetchChunks(loc.fetch_start, loc.end)} :
             \E n \in DOMAIN chunks :
                requests' = RequestLog(chunks, n, FALSE)
          /\ window' = Some(<<loc.start, loc.end>>)
    /\ \E raised \in {FetchFailure(previous_payload, last_update_time)} :
          /\ outcome' = raised.outcome
          /\ returned' = raised.returned
          /\ previous_payload' = raised.previous_payload
          /\ last_update_time' = raised.last_update_time
    /\ in_flight' = [in_flight EXCEPT ![task] = None]
    /\ refreshing' = Released(task)
    /\ answered' = None
    /\ UNCHANGED <<today, call, config, sites, hass, daily_cache, cached_cycle_start,
                   cycle_length_current>>

PeriodicAnswer == Answer("periodic")
PeriodicFail == Fail("periodic")
ManualAnswer == Answer("manual")
ManualFail == Fail("manual")

\* The days the clock advances while refreshes overlap.
RaceDays == 1

\* The calendar day changes, within RaceDays.
RaceTick ==
    /\ today < FirstToday + RaceDays
    /\ Tick

\* The refreshes that never reach the fetch run without suspension, whoever
\* starts them.
RaceNext ==
    \/ RaceTick
    \/ PeriodicBegin
    \/ PressBegin
    \/ PressIgnored
    \/ PeriodicAnswer
    \/ PeriodicFail
    \/ ManualAnswer
    \/ ManualFail
    \/ RefreshNoUsage
    \/ RefreshFromCache

RaceSpec == Init /\ [][RaceNext]_vars

\* ------------------------------------------------ the sites of one entry

\* async_setup_entry, lines 220-244: one AmberApi and one AmberCoordinator
\* per site id, constructed with the same surcharge, subscription and billing
\* start day.  Each coordinator keeps its state in its own attributes; the
\* day cache is a dict object the attribute _daily_cache refers to, which
\* update() and pop() change in place.

\* site_ids, in the order of the loop.
SiteIds == <<"A", "B">>
Sites == {SiteIds[i] : i \in DOMAIN SiteIds}

\* The references of dict objects.
Refs == 1..(Len(SiteIds) + 1)

\* A dict literal that evaluates to one and the same object every time.
NewDictShared(used) == 1

\* {}: a dict object that is none of the objects in use.
NewDict(used) == CHOOSE r \in Refs \ used : \A q \in Refs \ used : r <= q

\* The references the coordinators of b hold.
RefsOf(b) == {b[s]._daily_cache : s \in DOMAIN b}

\* AmberCoordinator.__init__, lines 344-353, with the new dict of line 348.
NewCoordinator(ref, now) ==
    [_daily_cache |-> ref,
     _cached_cycle_start |-> None,
     _cycle_length_current |-> DaysInMonth(YearOf(now), MonthOf(now)),
     last_update_time |-> None,
     _previous_payload |-> None]

RECURSIVE SetUpSites(_, _)
\* The loop of async_setup_entry over the first n site ids: site_bucket.
SetUpSites(n, now) ==
    IF n = 0 THEN <<>>
    ELSE Only({b @@ (SiteIds[n] :> NewCoordinator(NewDict(RefsOf(b)), now)) :
                  b \in {SetUpSites(n - 1, now)}})

\* The sites of an entry, set up on the first day.
SitesInit ==
    /\ today = FirstToday
    /\ billing_start_day \in {ClampStartDay(d) : d \in ConfiguredStartDays}
    /\ surcharge_cents \in ConfiguredSurchargeCents
    /\ subscription \in ConfiguredSubscriptionCents
    /\ daily_cache = <<>>
    /\ cached_cycle_start = None
    /\ cycle_length_current = DaysInMonth(YearOf(FirstToday), MonthOf(FirstToday))
    /\ last_update_time = None
    /\ previous_payload = None
    /\ outcome = "none"
    /\ returned = None
    /\ window = None
    /\ requests = <<>>
    /\ answered = None
    /\ call = None
    /\ in_flight = [t \in Tasks |-> None]
    /\ refreshing = FALSE
    /\ bucket = SetUpSites(Len(SiteIds), FirstToday)
    /\ heap = [r \in Refs |-> <<>>]
    /\ NoEntries

\* The heap once the coordinator of site s refers to the dict ref, whose
\* content is cache; a dict no coordinator refers to any more is gone.
Store(h, b, s, ref, cache) ==
    [r \in Refs |->
        IF r = ref THEN cache
        ELSE IF r \in RefsOf([o \in DOMAIN b \ {s} |-> b[o]]) THEN h[r]
        ELSE <<>>]

\* The state the coordinator of a site is left in by a refresh that none of
\* the sites' variables but those of site s take part in.
SiteRefreshEnds(s, me) ==
    /\ bucket' = [bucket EXCEPT ![s] = me]
    /\ call' = Some([method |-> "_async_update_data", site |-> s])
    /\ UNCHANGED <<today, config, tasks, hass, daily_cache, cached_cycle_start,
                   cycle_length_current, last_update_time, previous_payload,
                   outcome, returned, window, requests, answered>>

\* _async_update_data of the coordinator of a site on the first day of a
\* cycle, lines 356-378.
SiteRefreshNoUsage ==
    \E s \in Sites :
    \E c \in {Cycle} :
        /\ c.end < c.start
        /\ \E payload \in {FirstDayPayload(bucket[s]._previous_payload,
                                            c.start, c.length)} :
              SiteRefreshEnds(s, [bucket[s] EXCEPT
                  !._cycle_length_current = c.length,
                  !.last_update_time = Some(today),
                  !._previous_payload = Some(payload)])
        /\ UNCHANGED heap

\* _async_update_data, lines 380-382: the dict the coordinator of site s
\* refers to once the cycle start has been compared with the remembered one.
SiteCacheRef(s, start) ==
    IF bucket[s]._cached_cycle_start # Some(start)
    THEN NewDict(RefsOf(bucket))
    ELSE bucket[s]._daily_cache

\* The variants of the source the sites are refreshed with.
SiteVariants == {"full", "gaps"}

\* _async_update_data of the coordinator of a site when a sub-request of the
\* fetch raises, lines 356-399.
SiteRefreshFailed ==
    \E s \in Sites :
    \E c \in {Cycle} :
        /\ c.start <= c.end
        /\ \E ref \in {SiteCacheRef(s, c.start)} :
           \E cache \in {ResetCache(heap[bucket[s]._daily_cache],
                                     bucket[s]._cached_cycle_start, c.start)} :
           \E fetch_start \in {FetchStart(cache, c.start, c.end)} :
           \E raised \in {FetchFailure(bucket[s]._previous_payload,
                                       bucket[s].last_update_time)} :
              /\ NeedsFetch(fetch_start, c.end)
              /\ heap' = Store(heap, bucket, s, ref,
                               CacheAfterFailure(cache, <<>>, surcharge_cents,
                                                 subscription, c.length))
              /\ SiteRefreshEnds(s, [bucket[s] EXCEPT
                    !._daily_cache = ref,
                    !._cached_cycle_start = Some(c.start),
                    !._cycle_length_current = c.length,
                    !.last_update_time = raised.last_update_time,
                    !._previous_payload = raised.previous_payload])

\* _async_update_data of the coordinator of a site when the fetch answers
\* (variant v of the source) or is not needed, lines 356-419.
SiteRefreshed ==
    \E s \in Sites :
    \E c \in {Cycle} :
        /\ c.start <= c.end
        /\ \E ref \in {SiteCacheRef(s, c.start)} :
           \E cache \in {ResetCache(heap[bucket[s]._daily_cache],
                                     bucket[s]._cached_cycle_start, c.start)} :
           \E fetch_start \in {FetchStart(cache, c.start, c.end)} :
           \E v \in IF NeedsFetch(fetch_start, c.end) THEN SiteVariants
                                                      ELSE {"none"} :
           \E records \in {IF v = "none" THEN <<>>
                            ELSE FetchUsage(v, fetch_start[1], c.end)} :
           \E merged \in {MergeCache(cache, records, surcharge_cents,
                                     subscription, c.length)} :
           \E daily \in {DailyOf(merged, c.start, c.end, surcharge_cents,
                                 subscription, c.length)} :
           \E payload \in {Payload(daily, c.start, c.end, c.length)} :
              /\ heap' = Store(heap, bucket, s, ref,
                               PurgeOutOfRange(merged, c.start, c.end))
              /\ SiteRefreshEnds(s, [bucket[s] EXCEPT
                    !._daily_cache = ref,
                    !._cached_cycle_start = Some(c.start),
                    !._cycle_length_current = c.length,
                    !.last_update_time = Some(today),
                    !._previous_payload = Some(payload)])

\* The days the clock advances while the sites are refreshed.
SiteDays == 2

\* The calendar day changes, for all sites at once.
SitesTick ==
    /\ today < FirstToday + SiteDays
    /\ Tick

SitesNext ==
    \/ SitesTick
    \/ SiteRefreshNoUsage
    \/ SiteRefreshFailed
    \/ SiteRefreshed

SitesSpec == SitesInit /\ [][SitesNext]_vars

\* ------------------------------------------- the config entries of the host

\* The flows, the platform set-up, the fee numbers, the diagnostics and the
\* unloading of config entries.  The keys of an entry's data and options are
\* written as the names of their constants (CONF_TOKEN, ...).  The host's own
\* part is the library's: an entry a flow creates is stored under a new entry
\* id with the data of the result, the result of an options flow becomes the
\* options of the entry, and async_update_entry stores what it is given.

\* What none of the operations on config entries touches: the coordinators.
refreshes == <<today, config, tasks, sites, daily_cache, cached_cycle_start, cycle_length_current, last_update_time, previous_payload, outcome, returned, window, requests, answered>>

\* dict.get(key, default)
Get(d, key, default) == IF key \in DOMAIN d THEN d[key] ELSE default

\* {**d, key: value}
With(d, key, value) == AsMap((key :> value) @@ d)

\* The entry ids the host gives out, in this order.
EntryIds == <<"e1", "e2">>

\* The API tokens a user submits.
Tokens == {"t1", "t2"}

\* What AmberApi.discover_sites does, lines 263-278: it raises (the status is
\* not 200, the request times out), or returns the ids of the sites of the
\* answer, none when the body is no list or holds no id.
Discoveries ==
    {[raised |-> TRUE, site_ids |-> <<>>]}
        \cup {[raised |-> FALSE, site_ids |-> ids] : ids \in {<<>>, <<"A">>, <<"A", "B">>}}

\* The forms a user submits in the first step: the token, with or without a
\* site id of the user's own (vol.Optional(CONF_SITE_ID), line 65).
UserInputs ==
    {AsMap("CONF_TOKEN" :> t) : t \in Tokens}
        \cup {AsMap(("CONF_TOKEN" :> t) @@ ("CONF_SITE_ID" :> "B")) : t \in Tokens}

\* AmberBalanceConfigFlow.async_step_user, lines 45-84: the result of the
\* step.  The else clause of the try statement (lines 57-60) is entered
\* whenever the body raised nothing, with sites discovered or not.
AsyncStepUserResult(user_input, discovered) ==
    IF user_input = None THEN [type |-> "form", errors |-> <<>>]
    ELSE IF discovered.raised THEN [type |-> "form", errors |-> AsMap("base" :> "auth")]
    ELSE [type |-> "create_entry",
          data |-> IF discovered.site_ids = <<>> THEN user_input[1]
                   ELSE With(With(user_input[1], "CONF_SITE_IDS", discovered.site_ids),
                             "CONF_SITE_ID", discovered.site_ids[1])]

\* The entry ids not in use.
FreeEntryIds == {i \in DOMAIN EntryIds : EntryIds[i] \notin DOMAIN config_entries}

\* async_step_user: the form is shown (no input), or submitted with what
\* the discovery of the sites then does.
AsyncStepUser ==
    /\ FreeEntryIds # {}
    /\ \E user_input \in {None} \cup {Some(u) : u \in UserInputs} :
       \E discovered \in Discoveries :
       \E result \in {AsyncStepUserResult(user_input, discovered)} :
          /\ call' = Some([method |-> "async_step_user", user_input |-> user_input,
                           discovered |-> discovered, result |-> result])
          /\ config_entries' =
                IF result.type = "create_entry"
                THEN AsMap((EntryIds[CHOOSE i \in FreeEntryIds : \A j \in FreeEntryIds : i <= j]
                                :> [data |-> result.data, options |-> <<>>])
                           @@ config_entries)
                ELSE config_entries
    /\ UNCHANGED <<refreshes, hass_data, is_running, numbers, platforms>>

\* The token in use: current_token of async_step_init, lines 93-95.
CurrentToken(entry) == Get(entry.options, "CONF_TOKEN", Get(entry.data, "CONF_TOKEN", ""))

\* The surcharges a user submits in the options step.
OptionSurcharges == {5, 10}

\* The forms a user submits in the options step.
OptionInputs ==
    {AsMap(("CONF_TOKEN" :> t) @@ ("CONF_SURCHARGE_CENTS" :> s)) :
        t \in Tokens, s \in OptionSurcharges}

\* An options step that stores the new token before the discovery is done.
AsyncStepInitStoresFirst(entry, user_input, discovered) ==
    [entry EXCEPT !.data = With(entry.data, "CONF_TOKEN", user_input["CONF_TOKEN"])]

\* AmberBalanceOptionsFlow.async_step_init, lines 89-114, with a form
\* submitted: errors, the entry as the step leaves it, and whether the
\* discovery was called.
AsyncStepInitErrors(entry, user_input, discovered) ==
    IF user_input["CONF_TOKEN"] = CurrentToken(entry) THEN <<>>
    ELSE IF discovered.raised THEN AsMap("base" :> "auth")
    ELSE IF discovered.site_ids = <<>> THEN AsMap("base" :> "no_site")
    ELSE <<>>

\* Lines 98-108: the entry after the validation of a changed token.
AsyncStepInitValidated(entry, user_input, discovered) ==
    IF /\ user_input["CONF_TOKEN"] # CurrentToken(entry)
       /\ ~discovered.raised
       /\ discovered.site_ids # <<>>
    THEN [entry EXCEPT !.data = With(entry.data, "CONF_TOKEN", user_input["CONF_TOKEN"])]
    ELSE entry

\* Lines 112-114: without errors the input becomes the options of the entry.
AsyncStepInitSaved(entry, user_input, errors) ==
    IF errors = <<>> THEN [entry EXCEPT !.options = user_input] ELSE entry

\* async_step_init with a form submitted for an entry.
AsyncStepInit ==
    \E e \in DOMAIN config_entries :
    \E user_input \in OptionInputs :
    \E discovered \in Discoveries :
    \E errors \in {AsyncStepInitErrors(config_entries[e], user_input, discovered)} :
    \E validated \in {AsyncStepInitValidated(config_entries[e], user_input, discovered)} :
        /\ call' = Some([method |-> "async_step_init", entry_id |-> e,
                         user_input |-> user_input, discovered |-> discovered,
                         current_token |-> CurrentToken(config_entries[e]),
                         result |-> IF errors = <<>>
                                    THEN [type |-> "create_entry", data |-> user_input]
                                    ELSE [type |-> "form", errors |-> errors]])
        /\ config_entries' = [config_entries EXCEPT
                                ![e] = AsyncStepInitSaved(validated, user_input, errors)]
        /\ UNCHANGED <<refreshes, hass_data, is_running, numbers, platforms>>

\* A site id is written A or B where it is a value; these are its characters,
\* which formatting it into a text and slicing it work on.
Characters(site_id) ==
    IF site_id = "A" THEN <<"0", "1", "J", "A", "A", "A", "A", "1">>
    ELSE <<"0", "1", "J", "B", "B", "B", "B", "2">>

\* The NMI of a site.
Nmi(site_id) == IF site_id = "A" THEN "NMI-A" ELSE "NMI-B"

\* text[:n]
Take(text, n) == SubSeq(text, 1, Min(n, Len(text)))

\* The body of GET /sites/{id} when it is answered.
SiteInfo(site_id) == [id |-> site_id, nmi |-> Nmi(site_id), network |-> "Ausgrid"]

\* fetch_site_info, lines 312-313, and _get, line 317: url.
SiteInfoUrl(site_id) == <<"BASE_URL", "/sites/">> \o Characters(site_id)

\* _get, lines 321-332: str() of the RuntimeError it raises.
GetError(url, problem) ==
    CASE problem = "timeout" -> <<"GET ">> \o url \o <<" timed out">>
      [] problem = "status" -> <<"GET ">> \o url \o <<" -> ", "resp.status", ": ", "text[:200]">>
      [] problem = "invalid JSON" ->
            <<"GET ">> \o url \o <<" -> invalid JSON response: ", "text[:200]">>

\* diagnostics.py, lines 15-19
TO_REDACT == {"CONF_TOKEN", "id", "nmi"}

\* async_redact_data(d, TO_REDACT) of a dict whose values are no dicts.
Redact(d) == [k \in DOMAIN d |-> IF k \in TO_REDACT THEN "**REDACTED**" ELSE d[k]]

\* site_ids of the entry: lines 37-39 (and sensor.py, lines 196-198).
EntrySiteIds(data) ==
    IF Get(data, "CONF_SITE_IDS", <<>>) # <<>> THEN data["CONF_SITE_IDS"]
    ELSE IF "CONF_SITE_ID" \in DOMAIN data THEN <<data["CONF_SITE_ID"]>>
    ELSE <<>>

\* What the GET of a site's info does: it is answered, or _get raises.
InfoOutcomes == {"ok"} \cup {p \in Problems : GetRaises(p)}

\* Lines 42-52: the entry of the output for one site.
DiagnosticsSite(site_id, info_outcome) ==
    IF info_outcome = "ok" THEN [site_info |-> Redact(SiteInfo(site_id))]
    ELSE [site_id |-> Take(Characters(site_id), 6) \o <<"...">>,
          error |-> GetError(SiteInfoUrl(site_id), info_outcome)]

\* async_get_config_entry_diagnostics, lines 22-54: diagnostics_data.
Diagnostics(entry, info_outcomes) ==
    [config_entry |-> [data |-> Redact(entry.data), options |-> Redact(entry.options)],
     sites |-> AsSeq([i \in DOMAIN info_outcomes |->
                  DiagnosticsSite(EntrySiteIds(entry.data)[i], info_outcomes[i])])]

\* The diagnostics of an entry are downloaded.
AsyncGetConfigEntryDiagnostics ==
    \E e \in DOMAIN config_entries :
    \E site_ids \in {EntrySiteIds(config_entries[e].data)} :
    \E info_outcomes \in [DOMAIN site_ids -> InfoOutcomes] :
        /\ call' = Some([method |-> "async_get_config_entry_diagnostics",
                         entry |-> config_entries[e],
                         info_outcomes |-> AsSeq(info_outcomes),
                         result |-> Diagnostics(config_entries[e], AsSeq(info_outcomes))])
        /\ UNCHANGED <<refreshes, hass>>

\* The host with no config entry, the coordinators aside.
HostInit ==
    /\ today = FirstToday
    /\ billing_start_day \in {ClampStartDay(d) : d \in {1}}
    /\ surcharge_cents \in ConfiguredSurchargeCents
    /\ subscription \in ConfiguredSubscriptionCents
    /\ daily_cache = <<>>
    /\ cached_cycle_start = None
    /\ cycle_length_current = DaysInMonth(YearOf(FirstToday), MonthOf(FirstToday))
    /\ last_update_time = None
    /\ previous_payload = None
    /\ outcome = "none"
    /\ returned = None
    /\ window = None
    /\ requests = <<>>
    /\ answered = None
    /\ call = None
    /\ in_flight = [t \in Tasks |-> None]
    /\ refreshing = FALSE
    /\ bucket = <<>>
    /\ heap = <<>>
    /\ NoEntries

HostNext ==
    \/ AsyncStepUser
    \/ AsyncStepInit
    \/ AsyncGetConfigEntryDiagnostics

HostSpec == HostInit /\ [][HostNext]_vars

\* ------------------------------------------ the platforms of a config entry

\* __init__.async_setup_entry forwards the sensor platform, awaits it, and
\* then forwards the number and the button platform.  What the host does with
\* a platform whose async_setup_entry raises is the library's: it logs the
\* exception and goes on, so that the number and the button platform are
\* forwarded whether the sensor platform raised or not.

\* The platforms forwarded for the entry so far.
Forwarded(e) == {platforms[e][i].platform : i \in DOMAIN platforms[e]}

\* What the platform did when it was forwarded for the entry.
PlatformResult(e, platform) ==
    Only({platforms[e][i] : i \in {j \in DOMAIN platforms[e] : platforms[e][j].platform = platform}})

\* hass.data.get(DOMAIN, {})
DomainData == IF hass_data = None THEN <<>> ELSE hass_data[1]

\* sensor.async_setup_entry, lines 208-244: the bucket of the entry when the
\* first refresh of the first n sites succeeded.
EntryStorage(site_ids, n) ==
    [_lock |-> "asyncio.Lock",
     sites |-> AsMap([s \in {site_ids[i] : i \in 1..n} |->
                  [coordinator |-> s, api |-> s, site_info |-> s]])]

\* The sensor platform is forwarded: sensor.async_setup_entry, lines 196-245.
\* The first refresh of a site (line 233) raises ConfigEntryNotReady when the
\* update fails; the loop ends there, with the sites before it in the map
\* and no sensor added (line 245 is not reached).
SetupSensor ==
    \E e \in DOMAIN config_entries :
    \E site_ids \in {EntrySiteIds(config_entries[e].data)} :
    \E n \in 0..Len(site_ids) :
        /\ platforms[e] = <<>>
        /\ hass_data' = Some(With(DomainData, e, EntryStorage(site_ids, n)))
        /\ platforms' = [platforms EXCEPT ![e] =
              <<[platform |-> "sensor", raised |-> n < Len(site_ids),
                 entities |-> IF n < Len(site_ids) THEN {}
                              ELSE {site_ids[i] : i \in 1..n}]>>]
        /\ UNCHANGED <<refreshes, call, config_entries, is_running, numbers>>

\* number.async_setup_entry, lines 40-46, and button.async_setup_entry, lines
\* 48-54: the bucket of the entry and its site map are there and not empty.
SiteMapReady(domain_data, e) ==
    /\ e \in DOMAIN domain_data
    /\ domain_data[e] # <<>>
    /\ "sites" \in DOMAIN domain_data[e]
    /\ domain_data[e].sites # <<>>

\* The range and the default the fee numbers are constructed with.
NativeMin == 0
NativeMax == 20
DefaultFee == 0

\* The option keys of the two fee numbers, lines 56-83.
OptionKeys == {"CONF_SURCHARGE_CENTS", "CONF_SUBSCRIPTION"}

\* AmberFeeNumber._current_value, lines 128-141.
CurrentValue(entry, option_key) ==
    Get(entry.options, option_key, Get(entry.data, option_key, DefaultFee))

\* AmberFeeNumber.__init__, lines 96-126.
NewNumber(entry, option_key) ==
    [_attr_native_min_value |-> NativeMin,
     _attr_native_max_value |-> NativeMax,
     _attr_native_value |-> CurrentValue(entry, option_key),
     _ready_for_updates |-> FALSE]

\* The entities of the entries other than e.
NumbersOfOthers(e) ==
    AsMap([k \in {q \in DOMAIN numbers : q[1] # e} |-> numbers[k]])

\* The number platform is forwarded, after the sensor platform:
\* number.async_setup_entry, lines 36-85.
SetupNumber ==
    \E e \in DOMAIN config_entries :
        /\ "sensor" \in Forwarded(e)
        /\ "number" \notin Forwarded(e)
        /\ \E ready \in {SiteMapReady(DomainData, e)} :
              /\ platforms' = [platforms EXCEPT ![e] = Append(@,
                    [platform |-> "number", raised |-> ~ready,
                     entities |-> IF ready THEN OptionKeys ELSE {}])]
              /\ numbers' =
                    IF ready
                    THEN AsMap([k \in {<<e, o>> : o \in OptionKeys} |->
                                   NewNumber(config_entries[e], k[2])] @@ numbers)
                    ELSE numbers
        /\ UNCHANGED <<refreshes, call, config_entries, hass_data, is_running>>

\* button.async_setup_entry, lines 56-89: the sites a button is created for.
ButtonSites(entry, entry_sites) ==
    IF EntrySiteIds(entry.data) = <<>> THEN DOMAIN entry_sites
    ELSE {s \in DOMAIN entry_sites :
            \E i \in DOMAIN EntrySiteIds(entry.data) : EntrySiteIds(entry.data)[i] = s}

\* The button platform is forwarded, after the sensor platform:
\* button.async_setup_entry, lines 44-93.
SetupButton ==
    \E e \in DOMAIN config_entries :
        /\ "sensor" \in Forwarded(e)
        /\ "button" \notin Forwarded(e)
        /\ \E ready \in {SiteMapReady(DomainData, e)} :
              platforms' = [platforms EXCEPT ![e] = Append(@,
                    [platform |-> "button", raised |-> ~ready,
                     entities |-> IF ready
                                  THEN ButtonSites(config_entries[e], DomainData[e].sites)
                                  ELSE {}])]
        /\ UNCHANGED <<refreshes, call, config_entries, hass_data, is_running, numbers>>

\* AmberFeeNumber.async_added_to_hass, lines 170-173.
AsyncAddedToHass ==
    \E k \in DOMAIN numbers :
        /\ ~numbers[k]._ready_for_updates
        /\ numbers' = [numbers EXCEPT ![k] =
              [@ EXCEPT !._attr_native_value = CurrentValue(config_entries[k[1]], k[2]),
                        !._ready_for_updates = TRUE]]
        /\ UNCHANGED <<refreshes, call, config_entries, hass_data, is_running, platforms>>

\* The values a fee number is set to: below, within and above its range.
SetValues == {-5, 7, 25}

\* A value that is stored as it is given.
Unclamped(native_min, native_max, value) == value

\* async_set_native_value, line 148
Clamp(native_min, native_max, value) == Max(native_min, Min(native_max, value))

\* async_set_native_value, lines 160-161: new_options.
NewOptions(options, option_key, value) == With(options, option_key, value)

\* AmberFeeNumber.async_set_native_value, lines 147-168.
AsyncSetNativeValue ==
    \E k \in DOMAIN numbers :
    \E given \in SetValues :
    \E value \in {Clamp(numbers[k]._attr_native_min_value,
                        numbers[k]._attr_native_max_value, given)} :
    \E persist \in {numbers[k]._ready_for_updates /\ is_running} :
        /\ numbers' = [numbers EXCEPT ![k]._attr_native_value = value]
        /\ config_entries' =
              IF persist
              THEN [config_entries EXCEPT ![k[1]].options = NewOptions(@, k[2], value)]
              ELSE config_entries
        /\ call' = Some([method |-> "async_set_native_value", entity |-> k,
                         value |-> given, persisted |-> persist])
        /\ UNCHANGED <<refreshes, hass_data, is_running, platforms>>

\* The host has started: hass.is_running is True from then on, until it
\* stops.
HassStarted ==
    /\ ~is_running
    /\ is_running' = TRUE
    /\ UNCHANGED <<refreshes, call, config_entries, hass_data, numbers, platforms>>

\* The host stops.
HassStopping ==
    /\ is_running
    /\ is_running' = FALSE
    /\ UNCHANGED <<refreshes, call, config_entries, hass_data, numbers, platforms>>

\* domain_data.pop(entry_id), and hass.data.pop(DOMAIN) when nothing is left.
Popped(domain_data, e) ==
    Only({IF rest = <<>> THEN None ELSE Some(rest) :
            rest \in {AsMap([o \in DOMAIN domain_data \ {e} |-> domain_data[o]])}})

\* async_unload_entry that removes the bucket whatever the platforms did.
UnloadedAlways(data, e, unload_ok) ==
    IF data # None /\ e \in DOMAIN data[1] THEN Popped(data[1], e) ELSE data

\* async_unload_entry, lines 36-41: hass.data.get(DOMAIN) afterwards.
Unloaded(data, e, unload_ok) ==
    IF unload_ok /\ data # None /\ data[1] # <<>> /\ e \in DOMAIN data[1]
    THEN Popped(data[1], e)
    ELSE data

\* __init__.async_unload_entry, lines 34-42, of an entry whose platforms were
\* forwarded; unload_ok is what async_unload_platforms returns.
AsyncUnloadEntry ==
    \E e \in DOMAIN config_entries :
    \E unload_ok \in BOOLEAN :
        /\ Forwarded(e) = {"sensor", "number", "button"}
        /\ hass_data' = Unloaded(hass_data, e, unload_ok)
        /\ platforms' = IF unload_ok THEN [platforms EXCEPT ![e] = <<>>] ELSE platforms
        /\ numbers' = IF unload_ok THEN NumbersOfOthers(e) ELSE numbers
        /\ call' = Some([method |-> "async_unload_entry", entry_id |-> e,
                         unload_ok |-> unload_ok, domain_data |-> hass_data])
        /\ UNCHANGED <<refreshes, config_entries, is_running>>

\* The data of the entries that are set up: as the first step of the config
\* flow stores it, with two sites, one site and no site.
SetupEntries ==
    [e1 |-> [data |-> [CONF_TOKEN |-> "t1", CONF_SITE_IDS |-> <<"A", "B">>, CONF_SITE_ID |-> "A"],
             options |-> <<>>],
     e2 |-> [data |-> [CONF_TOKEN |-> "t2", CONF_SITE_IDS |-> <<"B">>, CONF_SITE_ID |-> "B"],
             options |-> [CONF_TOKEN |-> "t2"]],
     e3 |-> [data |-> [CONF_TOKEN |-> "t2"], options |-> <<>>]]

\* The host with config entries to set up: two of the three.
SetupInit ==
    /\ today = FirstToday
    /\ billing_start_day \in {ClampStartDay(d) : d \in {1}}
    /\ surcharge_cents \in ConfiguredSurchargeCents
    /\ subscription \in ConfiguredSubscriptionCents
    /\ daily_cache = <<>>
    /\ cached_cycle_start = None
    /\ cycle_length_current = DaysInMonth(YearOf(FirstToday), MonthOf(FirstToday))
    /\ last_update_time = None
    /\ previous_payload = None
    /\ outcome = "none"
    /\ returned = None
    /\ window = None
    /\ requests = <<>>
    /\ answered = None
    /\ call = None
    /\ in_flight = [t \in Tasks |-> None]
    /\ refreshing = FALSE
    /\ bucket = <<>>
    /\ heap = <<>>
    /\ \E ids \in {{"e1", "e2"}, {"e1", "e3"}, {"e2", "e3"}} :
          /\ config_entries = [e \in ids |-> SetupEntries[e]]
          /\ platforms = [e \in ids |-> <<>>]
    /\ hass_data = None
    /\ is_running = TRUE
    /\ numbers = <<>>

SetupNext ==
    \/ SetupSensor
    \/ SetupNumber
    \/ SetupButton
    \/ AsyncUnloadEntry

SetupSpec == SetupInit /\ [][SetupNext]_vars

\* The host while it starts, with one config entry to set up.
NumberInit ==
    /\ today = FirstToday
    /\ billing_start_day \in {ClampStartDay(d) : d \in {1}}
    /\ surcharge_cents \in ConfiguredSurchargeCents
    /\ subscription \in ConfiguredSubscriptionCents
    /\ daily_cache = <<>>
    /\ cached_cycle_start = None
    /\ cycle_length_current = DaysInMonth(YearOf(FirstToday), MonthOf(FirstToday))
    /\ last_update_time = None
    /\ previous_payload = None
    /\ outcome = "none"
    /\ returned = None
    /\ window = None
    /\ requests = <<>>
    /\ answered = None
    /\ call = None
    /\ in_flight = [t \in Tasks |-> None]
    /\ refreshing = FALSE
    /\ bucket = <<>>
    /\ heap = <<>>
    /\ config_entries = [e \in {"e2"} |-> SetupEntries[e]]
    /\ platforms = [e \in {"e2"} |-> <<>>]
    /\ hass_data = None
    /\ is_running = FALSE
    /\ numbers = <<>>

NumberNext ==
    \/ SetupSensor
    \/ SetupNumber
    \/ SetupButton
    \/ AsyncAddedToHass
    \/ AsyncSetNativeValue
    \/ HassStarted
    \/ HassStopping
    \/ AsyncUnloadEntry

NumberSpec == NumberInit /\ [][NumberNext]_vars

\* ------------------------------------------------------------------ claims

\* A step of a refresh: the clock stands still (Tick alone moves it).
RefreshStep == today' = today

\* What the last refresh computed as [start, end].
WindowStart == window[1][1]
WindowEnd == window[1][2]

\* The last refresh ran into a failing sub-request.
FetchFailed == requests # <<>> /\ ~requests[Len(requests)].ok

\* The dates the sub-requests of a log ask for.
RequestedDates(log) == UNION {log[i].from..log[i].to : i \in DOMAIN log}

\* The sub-requests of a log follow one another without gap or overlap.
Contiguous(log) == \A i \in 2..Len(log) : log[i].from = log[i - 1].to + 1

CacheDates(cache) == {FromIsoformat(k) : k \in DOMAIN cache}

\* C1, as claimed: a refresh whose fetch fails leaves the day cache exactly
\* as it was before the refresh, also when it is the first refresh after the
\* cycle start changed.
C1_FailedFetchLeavesCache ==
    [][(RefreshStep /\ FetchFailed') => daily_cache' = daily_cache]_vars

\* C1, amended: a refresh whose fetch fails leaves the day cache as it was
\* when the fetch was issued: unchanged when the computed cycle start is the
\* remembered one, and emptied by the cycle reset when it is not.
C1_FailedFetchKeepsCycleCache ==
    [][(RefreshStep /\ FetchFailed') =>
          IF cached_cycle_start = Some(Start)
          THEN daily_cache' = daily_cache
          ELSE daily_cache' = <<>>]_vars

\* A fetch failed in mid-cycle and the cache still holds its summaries.
C1_Witness ==
    /\ FetchFailed
    /\ outcome = "UpdateFailed"
    /\ DOMAIN daily_cache # {}

\* C2: a refresh whose fetch fails ends in UpdateFailed, returns no payload,
\* and leaves the previous payload and last_update_time as they were.
C2_FailedFetchKeepsPayload ==
    [][(RefreshStep /\ FetchFailed') =>
          /\ outcome' = "UpdateFailed"
          /\ returned' = None
          /\ previous_payload' = previous_payload
          /\ last_update_time' = last_update_time]_vars

\* A fetch failed on a later day than the last successful refresh, whose
\* payload is still the stored one.
C2_Witness ==
    /\ FetchFailed
    /\ outcome = "UpdateFailed"
    /\ previous_payload # None
    /\ previous_payload[1].daily # <<>>
    /\ last_update_time # None
    /\ last_update_time[1] < today

\* C3, as claimed: when the cache holds summaries of the current cycle and
\* end is later than the latest of them, no date that has a cached summary is
\* requested.
C3_NoCachedDateRequested ==
    [][(RefreshStep /\ cached_cycle_start = Some(Start)) =>
          RequestedDates(requests') \cap CacheDates(daily_cache) = {}]_vars

\* C3, amended: when the cache holds summaries of the current cycle and end
\* is later than the latest cached date, the refresh requests the dates from
\* the latest cached date to end: the latest cached date is requested again,
\* no earlier date is, cached or not.
C3_RequestsFromLatestCached ==
    [][(/\ RefreshStep
        /\ cached_cycle_start = Some(Start)
        /\ DOMAIN daily_cache # {}
        /\ End > LastCached(daily_cache)) =>
          /\ requests' # <<>>
          /\ requests'[1].from = LastCached(daily_cache)
          /\ RequestedDates(requests') \subseteq LastCached(daily_cache)..End
          /\ ~FetchFailed' => RequestedDates(requests') = LastCached(daily_cache)..End]_vars

\* An incremental fetch happened: the first sub-request starts after the
\* cycle start, at a date that has a cached summary, and ends later.
C3_Witness ==
    /\ outcome = "returned"
    /\ requests # <<>>
    /\ requests[1].from > WindowStart
    /\ requests[Len(requests)].to > requests[1].from
    /\ Isoformat(requests[1].from) \in DOMAIN daily_cache

\* The sub-requests of a log start at from, follow one another, and reach end
\* unless one of them failed.
AsksFor(log, from, end) ==
    /\ log # <<>>
    /\ log[1].from = from
    /\ Contiguous(log)
    /\ \A i \in DOMAIN log : log[i].from <= log[i].to /\ log[i].to <= end
    /\ log[Len(log)].ok => log[Len(log)].to = end

\* C4: a refresh past the first-day check requests [start, end] when the
\* cache is empty (at start-up, after a cycle reset, or because nothing was
\* cached), and [max(start, latest cached date), end] when the cache is not
\* empty and end is later than the latest cached date.
C4_RequestedRange ==
    [][(RefreshStep /\ Start <= End) =>
          LET kept == cached_cycle_start = Some(Start) /\ DOMAIN daily_cache # {}
          IN  /\ ~kept => AsksFor(requests', Start, End)
              /\ (kept /\ End > LastCached(daily_cache)) =>
                    AsksFor(requests', Max(Start, LastCached(daily_cache)), End)]_vars

\* A full-cycle fetch of several sub-requests succeeded.
C4_Witness ==
    /\ outcome = "returned"
    /\ Len(requests) >= 2
    /\ requests[1].from = WindowStart
    /\ requests[Len(requests)].to = WindowEnd

\* C5: when the latest cached date is on or after end, the refresh issues no
\* request, leaves the cache as it is and returns a payload whose daily
\* entries are the cached summaries.
C5_CoveredCacheNoFetch ==
    [][(/\ RefreshStep
        /\ Start <= End
        /\ DOMAIN daily_cache # {}
        /\ LastCached(daily_cache) >= End) =>
          /\ requests' = <<>>
          /\ outcome' = "returned"
          /\ daily_cache' = daily_cache
          /\ returned' # None
          /\ Len(returned'[1].daily) = End - Start + 1
          /\ \A i \in 1..(End - Start + 1) :
                Isoformat(Start + i - 1) \in DOMAIN daily_cache =>
                    returned'[1].daily[i] = daily_cache[Isoformat(Start + i - 1)]]_vars

\* A refresh was served from the cache, which reaches end.
C5_Witness ==
    /\ outcome = "returned"
    /\ requests = <<>>
    /\ WindowStart <= WindowEnd
    /\ DOMAIN daily_cache # {}
    /\ LastCached(daily_cache) = WindowEnd
    /\ returned[1].daily[Len(returned[1].daily)] = daily_cache[Isoformat(WindowEnd)]

\* C6, as claimed: on any refresh whose computed cycle start differs from
\* the remembered one the remembered start is updated and no summary of an
\* earlier cycle remains in the cache, from the first day of the cycle on.
C6_ResetOnAnyRefresh ==
    [][(RefreshStep /\ cached_cycle_start # Some(Start)) =>
          /\ cached_cycle_start' = Some(Start)
          /\ \A k \in DOMAIN daily_cache' : FromIsoformat(k) >= Start]_vars

\* C6, amended: on a refresh past the first-day check (start <= end) whose
\* computed cycle start differs from the remembered one, the cache is cleared
\* (no entry it held remains) and the remembered start is updated; on every
\* other refresh no cache entry is dropped; a refresh on the first day of a
\* cycle (end < start) leaves the cache and the remembered start as they were.
C6_ResetPastFirstDay ==
    [][RefreshStep =>
          /\ (Start <= End /\ cached_cycle_start # Some(Start)) =>
                /\ cached_cycle_start' = Some(Start)
                /\ DOMAIN daily_cache' \cap DOMAIN daily_cache = {}
                /\ \A k \in DOMAIN daily_cache' : FromIsoformat(k) >= Start
          /\ (Start <= End /\ cached_cycle_start = Some(Start)) =>
                /\ cached_cycle_start' = cached_cycle_start
                /\ DOMAIN daily_cache \subseteq DOMAIN daily_cache'
          /\ End < Start =>
                /\ cached_cycle_start' = cached_cycle_start
                /\ daily_cache' = daily_cache]_vars

\* The fetch failed on the first refresh past the first day of a new cycle:
\* the stored payload is the previous cycle's, the cache has been cleared.
C6_Witness ==
    /\ outcome = "UpdateFailed"
    /\ previous_payload # None
    /\ previous_payload[1].daily # <<>>
    /\ cached_cycle_start # None
    /\ FromIsoformat(previous_payload[1].range_start) < cached_cycle_start[1]
    /\ DOMAIN daily_cache = {}

\* C7, as claimed: after every refresh, the first-day path included, every
\* key of the cache is a date within [start, end] of that refresh.
C7_KeysWithinWindow ==
    outcome # "none" =>
        \A k \in DOMAIN daily_cache :
            WindowStart <= FromIsoformat(k) /\ FromIsoformat(k) <= WindowEnd

\* C7, amended: after every refresh that is past the first-day check,
\* successful or failed, every key of the cache is a date within [start, end]
\* of that refresh; after a refresh on the first-day path the cache is the
\* one of the cycle before, its keys within [remembered start, start - 1].
C7_KeysWithinCycle ==
    outcome # "none" =>
        \A k \in DOMAIN daily_cache :
            IF WindowStart <= WindowEnd
            THEN WindowStart <= FromIsoformat(k) /\ FromIsoformat(k) <= WindowEnd
            ELSE /\ cached_cycle_start # None
                 /\ cached_cycle_start[1] <= FromIsoformat(k)
                 /\ FromIsoformat(k) <= WindowStart - 1

\* A fetch was merged and purged: the cache holds every day of [start, end].
C7_Witness ==
    /\ outcome = "returned"
    /\ requests # <<>>
    /\ WindowStart < WindowEnd
    /\ CacheDates(daily_cache) = WindowStart..WindowEnd

\* The daily sequence of the payload the last refresh returned.
ReturnedDaily == returned[1].daily

\* C8: the daily sequence of a successful refresh with start <= end has one
\* entry for each date of [start, end], in ascending order and no other; the
\* entry of a cached date is the cached summary, and the entry of a date with
\* no cached summary has zero energy fields and position = surcharge +
\* subscription.
C8_DailyIsGapFree ==
    (outcome = "returned" /\ WindowStart <= WindowEnd) =>
        /\ Len(ReturnedDaily) = WindowEnd - WindowStart + 1
        /\ \A i \in DOMAIN ReturnedDaily :
              LET d == ReturnedDaily[i]
              IN  /\ d.date = Isoformat(WindowStart + i - 1)
                  /\ IF d.date \in DOMAIN daily_cache
                     THEN d = daily_cache[d.date]
                     ELSE /\ d.import_kwh = 0 /\ d.export_kwh = 0
                          /\ d.import_value = 0 /\ d.export_value = 0
                          /\ d.energy_total = 0
                          /\ d.surcharge = surcharge_cents * MoneyScale
                          /\ d.position = d.surcharge + d.subscription

\* A payload was returned in which one day is a placeholder between two days
\* that have cached summaries.
C8_Witness ==
    /\ outcome = "returned"
    /\ WindowStart <= WindowEnd
    /\ \E i, j, k \in DOMAIN ReturnedDaily :
          /\ i < j /\ j < k
          /\ ReturnedDaily[i].date \in DOMAIN daily_cache
          /\ ReturnedDaily[j].date \notin DOMAIN daily_cache
          /\ ReturnedDaily[k].date \in DOMAIN daily_cache

\* C9, as claimed: every daily entry of a payload, aggregated or placeholder,
\* carries subscription = monthly subscription / (next_start - start).
C9_SubscriptionPerCycleDay ==
    (outcome = "returned" /\ WindowStart <= WindowEnd) =>
        \A i \in DOMAIN ReturnedDaily :
            ReturnedDaily[i].subscription =
                (subscription * MoneyScale)
                    \div (NextCycleStart(WindowStart, billing_start_day) - WindowStart)

\* The totals of a payload without days.
ZeroTotals(t) ==
    /\ t.import_kwh = 0 /\ t.export_kwh = 0 /\ t.net_kwh = 0
    /\ t.import_value = 0 /\ t.export_value = 0 /\ t.energy_total = 0
    /\ t.surcharge = 0 /\ t.subscription = 0 /\ t.fees = 0 /\ t.position = 0
    /\ t.average_daily_cost[1] = 0 /\ t.projected_month_total[1] = 0
    /\ t.days_elapsed = 0 /\ t.days_in_credit = 0 /\ t.days_owing = 0
    /\ t.best_day = 0 /\ t.worst_day = 0 /\ t.most_average_day = 0

\* C10: on the first day of a cycle (end < start) the refresh issues no
\* request and raises nothing: it returns the stored previous payload
\* unchanged when there is one, else a payload with no days and zero totals.
C10_FirstDayReusesPayload ==
    [][(RefreshStep /\ End < Start) =>
          /\ requests' = <<>>
          /\ outcome' = "returned"
          /\ IF previous_payload # None
             THEN returned' = previous_payload /\ previous_payload' = previous_payload
             ELSE /\ returned' # None
                  /\ returned'[1].daily = <<>>
                  /\ ZeroTotals(returned'[1].totals)
                  /\ previous_payload' = returned']_vars

\* A refresh on the first day of a cycle returned the payload of the cycle
\* before.
C10_Witness ==
    /\ outcome = "returned"
    /\ WindowEnd < WindowStart
    /\ ReturnedDaily # <<>>
    /\ returned = previous_payload
    /\ FromIsoformat(returned[1].range_start) < WindowStart

\* ------------------------------------------------------------- C11 .. C20

\* The last call was a call of the method.
Called(method) == call # None /\ call[1].method = method

\* C11: for every date today and every billing start day d in 1..28,
\* _cycle_bounds returns as start the d-th of today's month when
\* today.day >= d, else the d-th of the month before (December of the year
\* before when today is in January); and start <= today < next_start.
C11_CycleStart ==
    Called("_cycle_bounds") =>
        LET t == FromOrdinal(call[1].today)
            d == call[1].day
            start == call[1].result[1]
            next_start == call[1].result[2]
        IN  /\ FromOrdinal(start) =
                  IF t[3] >= d THEN <<t[1], t[2], d>>
                  ELSE IF t[2] = 1 THEN <<t[1] - 1, 12, d>>
                  ELSE <<t[1], t[2] - 1, d>>
            /\ start <= call[1].today
            /\ call[1].today < next_start

\* _cycle_bounds was called on a day of January before the billing start day:
\* the cycle started in December of the year before.
C11_Witness ==
    /\ Called("_cycle_bounds")
    /\ FromOrdinal(call[1].today)[2] = 1
    /\ FromOrdinal(call[1].today)[3] < call[1].day
    /\ FromOrdinal(call[1].result[1])[2] = 12
    /\ FromOrdinal(call[1].result[1])[1] = FromOrdinal(call[1].today)[1] - 1

\* C12: on every refresh, next_start is the start's day-of-month in the month
\* after the start's (January of the next year after December), and the cycle
\* length the refresh stores is next_start - start, between 28 and 31 days,
\* whatever length was stored before.
C12_NextStartAndLength ==
    [][RefreshStep =>
          \A b \in {CycleBounds(today, billing_start_day)} :
          \A s \in {FromOrdinal(b[1])} :
              /\ s[3] = billing_start_day
              /\ FromOrdinal(b[2]) =
                    IF s[2] = 12 THEN <<s[1] + 1, 1, s[3]>>
                                 ELSE <<s[1], s[2] + 1, s[3]>>
              /\ cycle_length_current' = b[2] - b[1]
              /\ cycle_length_current' \in 28..31]_vars

\* A refresh in a cycle that starts in December and ends in January of the
\* next year.
C12_Witness ==
    /\ outcome # "none"
    /\ FromOrdinal(WindowStart)[2] = 12
    /\ FromOrdinal(today)[2] = 1
    /\ FromOrdinal(WindowStart + cycle_length_current) =
          <<FromOrdinal(WindowStart)[1] + 1, 1, billing_start_day>>

\* The executions of _async_update_data that are suspended in the fetch.
InFlight == {t \in Tasks : in_flight[t] # None}

\* C13: periodic and manual refreshes of one site are mutually exclusive:
\* while an execution of the refresh is suspended in the fetch, no other
\* execution starts, and nothing but the execution itself changes the cache
\* or the cycle the cache is kept for.
C13_RefreshesSerialized ==
    [][\A t \in InFlight :
          /\ \A u \in Tasks \ {t} : in_flight[u] = None => in_flight'[u] = None
          /\ in_flight'[t] # None =>
                UNCHANGED <<daily_cache, cached_cycle_start>>]_vars

\* C14: at most one refresh of the site is running at any time: a press of
\* the button while a refresh is in flight starts no second one.
C14_AtMostOneRefresh == Cardinality(InFlight) <= 1

\* The dates the records of a fetch are for.
RecordDates(records) ==
    {FromIsoformat(records[i].date[1]) :
        i \in {j \in DOMAIN records : records[j].date # None}}

\* C15: the merge of a refresh whose fetch is split into several sub-requests
\* is all or nothing.  When a sub-request fails, also after earlier ones were
\* answered, the refresh adds no summary to the cache and changes none; when
\* all were answered, the cache has every day of [start, end] that the answer
\* for the whole requested range has records for.
C15_MergeAllOrNothing ==
    [][(RefreshStep /\ FetchFailed') \/ (RefreshStep /\ Len(requests') >= 2) =>
          IF FetchFailed'
          THEN \A k \in DOMAIN daily_cache' :
                  k \in DOMAIN daily_cache /\ daily_cache'[k] = daily_cache[k]
          ELSE \E v \in Variants :
                  CacheDates(daily_cache') =
                     (CacheDates(ResetCache(daily_cache, cached_cycle_start, Start))
                        \cup RecordDates(FetchUsage(v, requests'[1].from,
                                                    requests'[Len(requests')].to)))
                     \cap (Start..End)]_vars

\* A refresh failed in its second sub-request, the first one answered.
C15_Witness ==
    /\ outcome = "UpdateFailed"
    /\ Len(requests) >= 2
    /\ requests[1].ok
    /\ ~requests[Len(requests)].ok
    /\ CacheDates(daily_cache) \cap RequestedDates(requests) = {}

\* C16: for every start <= end, the sub-requests of fetch_usage each span at
\* most 7 days, are issued in ascending order without overlap or gap, and cover
\* exactly [start, end]; there are as many as 7-day pieces are needed, no more
\* (the loop ends), and the result is the answers one after the other in the
\* order of the requests.
C16_Chunking ==
    Called("fetch_usage") =>
        LET c == call[1]
            log == c.requests
            n == Len(log)
            days == c.end - c.start + 1
        IN  /\ n >= 1
            /\ n * 7 >= days
            /\ (n - 1) * 7 < days
            /\ \A i \in 1..n : /\ log[i].from <= log[i].to
                               /\ log[i].to - log[i].from + 1 <= 7
            /\ log[1].from = c.start
            /\ log[n].to = c.end
            /\ Contiguous(log)
            /\ RequestedDates(log) = c.start..c.end
            /\ c.result = Concat([i \in 1..n |->
                                    Response(c.variant, log[i].from, log[i].to)])

\* fetch_usage was called for a range that takes five sub-requests, the last
\* of them shorter than 7 days.
C16_Witness ==
    /\ Called("fetch_usage")
    /\ Len(call[1].requests) = 5
    /\ call[1].end - call[1].start + 1 = 31
    /\ call[1].requests[5].to - call[1].requests[5].from + 1 = 3
    /\ call[1].result # <<>>

NothingNew ==
    \/ requests' = <<>>
    \/ /\ answered' # None
       /\ \E new \in {Summaries(FetchUsage(answered'[1], requests'[1].from,
                                           requests'[Len(requests')].to),
                                surcharge_cents, subscription,
                                cycle_length_current)} :
             \A k \in DOMAIN new : k \in DOMAIN daily_cache /\ daily_cache[k] = new[k]

\* C18: a refresh that runs again on the day of the last refresh, which
\* returned a payload, while the source returns nothing new, returns a
\* payload with the same totals (and the same daily list) and leaves the
\* cache as it was.
C18_Idempotent ==
    [][(/\ RefreshStep
        /\ outcome = "returned"
        /\ last_update_time = Some(today)
        /\ outcome' = "returned"
        /\ NothingNew) =>
          /\ daily_cache' = daily_cache
          /\ returned'[1].totals = returned[1].totals
          /\ returned'[1].daily = returned[1].daily]_vars

\* The refresh ran again on the first day of the model and fetched again from
\* the latest cached date, the source still having nothing for the last day.
C18_Witness ==
    /\ today = FirstToday
    /\ outcome = "returned"
    /\ answered # None
    /\ requests[1].from > WindowStart
    /\ requests[1].from \in CacheDates(daily_cache)
    /\ WindowEnd \notin CacheDates(daily_cache)
    /\ ~ZeroTotals(returned[1].totals)

\* After a failed refresh a refresh returns a payload for the day's window,
\* with one daily entry for each date of [start, end].
C19_Recovers ==
    (outcome = "UpdateFailed") ~>
        (/\ outcome = "returned"
         /\ last_update_time = Some(today)
         /\ window = Some(<<Start, End>>)
         /\ Start <= End =>
               /\ Len(ReturnedDaily) = End - Start + 1
               /\ ReturnedDaily[1].date = Isoformat(Start)
               /\ ReturnedDaily[Len(ReturnedDaily)].date = Isoformat(End))

\* C19, as claimed: the refresh after a failed one fetches again, for a range
\* that includes every day of [start, end] that is missing from the cache,
\* and, the source answering in the end, a later refresh returns a payload
\* covering [start, end].
C19_RetryAsksForMissingDays ==
    /\ [][(RefreshStep /\ outcome = "UpdateFailed" /\ Start <= End) =>
            /\ requests' # <<>>
            /\ \E from \in Start..End :
                  /\ AsksFor(requests', from, End)
                  /\ \A d \in Start..End :
                        d \in CacheDates(ResetCache(daily_cache, cached_cycle_start,
                                                    Start)) \/ d >= from]_vars
    /\ C19_Recovers

\* C19, amended: the refresh after a failed one fetches again (unless it is
\* the first day of a cycle): in the cycle of the failed refresh from the
\* date the failed refresh asked from through the present end, so for every
\* day the failed refresh asked for, and in a new cycle for the whole of
\* [start, end]; the days missing before the latest cached date are not asked
\* for.  The source answering in the end, a later refresh returns a payload
\* covering [start, end].
C19_RetryAsksAgain ==
    /\ [][(RefreshStep /\ outcome = "UpdateFailed" /\ Start <= End) =>
            /\ requests' # <<>>
            /\ IF cached_cycle_start = Some(Start)
               THEN /\ AsksFor(requests', requests[1].from, End)
                    /\ RequestedDates(requests) \subseteq requests[1].from..End
               ELSE AsksFor(requests', Start, End)]_vars
    /\ C19_Recovers

\* A refresh failed on a day after the last success, asking from the latest
\* cached date, and the cache has a day missing before that date.
C19_Witness ==
    /\ outcome = "UpdateFailed"
    /\ daily_cache # <<>>
    /\ last_update_time # None
    /\ last_update_time[1] < today
    /\ requests[1].from = LastCached(daily_cache)
    /\ \E d \in WindowStart..LastCached(daily_cache) : d \notin CacheDates(daily_cache)

\* A float amount in whole cents, to the nearest.
Cents(amount) == (2 * amount + MoneyScale * Ulps) \div (2 * MoneyScale * Ulps)

\* The exact amount lies on a half cent.
OnHalfCent(amount) == (2 * amount) % (2 * MoneyScale) = MoneyScale

\* The entry the last call returned, and the floats it holds.
Entry == call[1].result
Floats == call[1].floats

\* C20, as claimed: every daily entry of a payload, aggregated or placeholder,
\* has position == energy_total + surcharge + subscription and energy_total ==
\* import_value + export_value, the two sides equal when rounded to cents.
C20_IdentitiesAtCentPrecision ==
    (Called("_summarize_day") \/ Called("_merge_daily")) =>
        /\ Cents(Floats.position) =
              Cents(Floats.energy_total + Floats.surcharge + Floats.subscription)
        /\ Cents(Floats.energy_total) =
              Cents(Floats.import_value + Floats.export_value)

\* C20, amended: the two identities hold exactly for the decimal values
\* _summarize_day computes, of which import_value, export_value and
\* energy_total are whole cents while surcharge, subscription and position
\* are not rounded; the floats of the entry satisfy them to within the
\* rounding of the conversions, the energy identity also when both sides are
\* rounded to cents, and the position identity when they are rounded to cents
\* unless the exact position lies on a half cent.  In a placeholder position
\* is the float sum of surcharge and subscription and the energy fields are 0.
C20_IdentitiesUpToFloatRounding ==
    /\ Called("_summarize_day") =>
          /\ Entry.position = Entry.energy_total + Entry.surcharge + Entry.subscription
          /\ Entry.energy_total = Entry.import_value + Entry.export_value
          /\ \A f \in {"import_value", "export_value", "energy_total"} :
                Entry[f] % MoneyScale = 0
          /\ Abs(Floats.position - (Floats.energy_total + Floats.surcharge
                                       + Floats.subscription)) <= 4
          /\ Cents(Floats.energy_total) =
                Cents(Floats.import_value + Floats.export_value)
          /\ ~OnHalfCent(Entry.position) =>
                Cents(Floats.position) =
                   Cents(Floats.energy_total + Floats.surcharge + Floats.subscription)
    /\ Called("_merge_daily") =>
          /\ Entry.position = Entry.energy_total + Entry.surcharge + Entry.subscription
          /\ Entry.energy_total = Entry.import_value + Entry.export_value
          /\ Entry.energy_total = 0
          /\ Floats.position =
                Floats.energy_total + Floats.surcharge + Floats.subscription
          /\ Floats.energy_total = Floats.import_value + Floats.export_value

\* _summarize_day returned an entry whose exact position lies on a half cent
\* (a subscription of 0.45 over 30 days) and whose float position is below it.
C20_Witness ==
    /\ Called("_summarize_day")
    /\ call[1].subscription = 45
    /\ call[1].cycle_length = 30
    /\ OnHalfCent(Entry.position)
    /\ Entry.energy_total # 0
    /\ Floats.position < Entry.position * Ulps

\* ------------------------------------------------------------- C21 .. C30

IsHalfUp(r, total) ==
    /\ r * total >= 0
    /\ 2 * Abs(total) - CostDen < 2 * CostDen * Abs(r)
    /\ 2 * CostDen * Abs(r) <= 2 * Abs(total) + CostDen

\* The records _summarize_day was last called with.
CallRecords == call[1].records

\* The channel type of the i-th of these records.
CallChannel(i) ==
    IF CallRecords[i].channelType = None THEN "unknown"
    ELSE CallRecords[i].channelType[1]

\* C22: in _summarize_day the cost of each channel type is summed exactly and
\* each channel subtotal is rounded to the cent, half up, before the subtotals
\* are added: import_value is the sum of the rounded subtotals of the channels
\* other than feedIn, export_value the rounded subtotal of feedIn, and records
\* without a cost contribute to neither.
C22_ChannelSubtotalsRounded ==
    Called("_summarize_day") =>
        LET costed == {i \in DOMAIN CallRecords : CallRecords[i].cost # None}
            Subtotal(c) ==
                SumSet([i \in costed |-> IF CallChannel(i) = c
                                         THEN CallRecords[i].cost[1] ELSE 0], costed)
            Rounded(c) == CHOOSE r \in -100..100 : IsHalfUp(r, Subtotal(c))
            channels == {CallChannel(i) : i \in costed}
            imports == channels \ {"feedIn"}
        IN  /\ Entry.import_value =
                  MoneyScale * SumSet([c \in imports |-> Rounded(c)], imports)
            /\ Entry.export_value =
                  IF "feedIn" \in channels THEN MoneyScale * Rounded("feedIn") ELSE 0
            /\ Entry.energy_total = Entry.import_value + Entry.export_value

\* _summarize_day was called with a record that has no cost and with several
\* import channels whose subtotals lie on half cents: rounding their sum once
\* would give another import_value.
C22_Witness ==
    /\ Called("_summarize_day")
    /\ \E i \in DOMAIN CallRecords : CallRecords[i].cost = None
    /\ Cardinality({CallChannel(i) : i \in DOMAIN CallRecords} \ {"feedIn"}) >= 2
    /\ Entry.import_value #
          MoneyScale * RoundMoney(SumSeq([i \in DOMAIN CallRecords |->
              IF CallRecords[i].cost # None /\ CallChannel(i) # "feedIn"
              THEN CallRecords[i].cost[1] ELSE 0]))

\* The quantity of the i-th record of the call, 0 when it reports none.
CallKwh(i) == IF CallRecords[i].kwh = None THEN 0 ELSE CallRecords[i].kwh[1]

\* C23: in every daily summary import kWh and export kWh are non-negative:
\* export kWh is the sum of the absolute feedIn quantities and import kWh the
\* sum of the quantities of every other channel type, whatever the signs of
\* the quantities the source reports.
C23_KwhNonNegative ==
    Called("_summarize_day") =>
        /\ Entry.import_kwh >= 0
        /\ Entry.export_kwh >= 0
        /\ Entry.export_kwh =
              SumSeq([i \in DOMAIN CallRecords |->
                  IF CallChannel(i) = "feedIn" THEN Abs(CallKwh(i)) ELSE 0])
        /\ Entry.import_kwh =
              SumSeq([i \in DOMAIN CallRecords |->
                  IF CallChannel(i) = "feedIn" THEN 0 ELSE CallKwh(i)])

\* The daily sequence _totals was last called with, its positions, and the
\* dates of its days as ordinals.
CallDaily == call[1].daily
CallPosition(i) == CallDaily[i].position
CallDate(i) == FromIsoformat(CallDaily[i].date)

\* The day i of the call is the earliest of the days whose key equals value.
EarliestWith(i, value, keys) ==
    /\ keys[i] = value
    /\ \A j \in DOMAIN keys : keys[j] = value => CallDate(i) <= CallDate(j)

\* C24: in the totals best_day is the least position, worst_day the
\* greatest and most_average_day the position of least absolute value over
\* the daily sequence, and each of the three dates is the earliest date among
\* the days that tie.
C24_StatisticsEarliestTie ==
    (Called("_totals") /\ CallDaily # <<>>) =>
        LET t == call[1].result
            positions == [i \in DOMAIN CallDaily |-> CallPosition(i)]
            distances == [i \in DOMAIN CallDaily |-> Abs(CallPosition(i))]
        IN  /\ \A i \in DOMAIN CallDaily :
                  /\ t.best_day <= positions[i]
                  /\ t.worst_day >= positions[i]
                  /\ Abs(t.most_average_day) <= distances[i]
            /\ \E i \in DOMAIN CallDaily :
                  /\ EarliestWith(i, t.best_day, positions)
                  /\ t.best_day_date = Some(CallDaily[i].date)
            /\ \E i \in DOMAIN CallDaily :
                  /\ EarliestWith(i, t.worst_day, positions)
                  /\ t.worst_day_date = Some(CallDaily[i].date)
            /\ \E i \in DOMAIN CallDaily :
                  /\ EarliestWith(i, Abs(t.most_average_day), distances)
                  /\ t.most_average_day = positions[i]
                  /\ t.most_average_day_date = Some(CallDaily[i].date)

\* _totals was called with days that tie for the greatest position and with
\* a day in credit and a day owing that are equally far from 0, the owing
\* one first.
C24_Witness ==
    /\ Called("_totals")
    /\ \E i, j \in DOMAIN CallDaily :
          /\ i < j
          /\ CallPosition(i) = call[1].result.worst_day
          /\ CallPosition(j) = call[1].result.worst_day
          /\ call[1].result.worst_day_date = Some(CallDaily[i].date)
    /\ \E i, j \in DOMAIN CallDaily :
          /\ i < j
          /\ CallPosition(i) > 0
          /\ CallPosition(j) = -CallPosition(i)
          /\ call[1].result.most_average_day = CallPosition(i)

\* The days of the call whose position is exactly 0.
CallEvenDays == {i \in DOMAIN CallDaily : CallPosition(i) = 0}

\* C25: in the totals days_in_credit counts the days with position < 0 and
\* days_owing the days with position > 0; a day with position 0 counts toward
\* neither, so days_in_credit + days_owing <= days_elapsed, with equality
\* exactly when no day has position 0.
C25_CreditAndOwing ==
    Called("_totals") =>
        LET t == call[1].result
        IN  /\ t.days_in_credit =
                  Len(SelectSeq(CallDaily, LAMBDA d : d.position < 0))
            /\ t.days_owing =
                  Len(SelectSeq(CallDaily, LAMBDA d : d.position > 0))
            /\ t.days_in_credit + t.days_owing + Cardinality(CallEvenDays)
                  = t.days_elapsed
            /\ t.days_in_credit + t.days_owing <= t.days_elapsed
            /\ (t.days_in_credit + t.days_owing = t.days_elapsed)
                  <=> (CallEvenDays = {})

\* _totals was called with a day in credit, a day owing and a day whose
\* position is 0.
C25_Witness ==
    /\ Called("_totals")
    /\ CallEvenDays # {}
    /\ call[1].result.days_in_credit >= 1
    /\ call[1].result.days_owing >= 1
    /\ call[1].result.days_in_credit + call[1].result.days_owing
          < call[1].result.days_elapsed

\* The cycle length of the cycle the returned payload is about: from its
\* range_start to the next cycle start.
ReturnedCycleLength ==
    Only({NextCycleStart(start, billing_start_day) - start :
             start \in {FromIsoformat(returned[1].range_start)}})

\* C26: in the totals of every payload a refresh returns, days_elapsed is
\* the number of daily entries, days_remaining is max(cycle_length -
\* days_elapsed, 0), average_daily_cost is the total position over
\* days_elapsed (0 when there are no days) and projected_month_total is the
\* average times the cycle length; the total position is the sum over the
\* daily sequence of the payload, whatever the refreshes before returned.
C26_DerivedFromDaily ==
    (outcome = "returned") =>
        \A t \in {returned[1].totals} :
        \A length \in {ReturnedCycleLength} :
        \A total \in {SumSeq([i \in DOMAIN ReturnedDaily |->
                                 ReturnedDaily[i].position])} :
            /\ t.days_elapsed = Len(ReturnedDaily)
            /\ t.days_remaining = Max(length - t.days_elapsed, 0)
            /\ t.position = total
            /\ IF t.days_elapsed = 0
               THEN /\ t.average_daily_cost[1] = 0
                    /\ t.projected_month_total[1] = 0
               ELSE /\ t.average_daily_cost = <<total, t.days_elapsed>>
                    /\ t.projected_month_total = <<total, t.days_elapsed, length>>

\* A refresh that fetched only the days from the latest cached date on
\* returned totals over all the days of the cycle so far, in a payload that
\* differs from the one before only by the new days.
C26_Witness ==
    /\ outcome = "returned"
    /\ requests # <<>>
    /\ requests[1].from > WindowStart
    /\ returned[1].totals.days_elapsed > WindowEnd - requests[1].from + 1
    /\ returned[1].totals.days_elapsed = WindowEnd - WindowStart + 1
    /\ returned[1].totals.days_remaining >= 1

\* C27: a usage fetch never returns partial or empty data silently: a
\* timeout, a status other than 200, an undecodable body and a decoded body
\* that is not a list of records each make fetch_usage raise.
C27_FetchProblemRaises ==
    Called("fetch_usage, _get") => call[1].raised

\* C28: whatever billing start day is configured, also one outside 1..28,
\* the effective billing start day of the coordinator lies in 1..28, and
\* computing the cycle bounds never fails on a date that does not exist, in
\* any month.
C28_StartDayClamped ==
    Called("__init__, _cycle_bounds") =>
        /\ billing_start_day \in 1..28
        /\ billing_start_day = call[1].day
        /\ call[1].configured \in 1..28 => billing_start_day = call[1].configured
        /\ call[1].configured < 1 => billing_start_day = 1
        /\ call[1].configured > 28 => billing_start_day = 28
        /\ ~call[1].raised
        /\ \A i \in 1..2 : FromOrdinal(call[1].result[i])[3] = billing_start_day

\* A coordinator configured with the start day 31 computed a cycle that
\* starts on 28 February.
C28_Witness ==
    /\ Called("__init__, _cycle_bounds")
    /\ call[1].configured = 31
    /\ ~call[1].raised
    /\ FromOrdinal(call[1].result[1]) = <<2023, 2, 28>>
    /\ FromOrdinal(call[1].result[2]) = <<2023, 3, 28>>

\* The refresh state of the coordinator of a site: its day cache, the cycle
\* start it remembers, its previous payload and its last update time.
SiteState(s) ==
    [daily_cache |-> heap[bucket[s]._daily_cache],
     cached_cycle_start |-> bucket[s]._cached_cycle_start,
     previous_payload |-> bucket[s]._previous_payload,
     last_update_time |-> bucket[s].last_update_time]

\* C29: sites share no mutable refresh state: a refresh of one site, whether
\* it returns or fails, leaves the day cache, the remembered cycle start, the
\* previous payload and the last update time of every other site unchanged.
C29_SitesIndependent ==
    [][\A s \in Sites :
          (RefreshStep /\ call' # None /\ call'[1].site = s) =>
              \A o \in Sites \ {s} : SiteState(o)' = SiteState(o)]_vars

\* Two sites hold different caches of the same cycle: site B was refreshed
\* today, and the refresh of site A that came after it failed, site A having
\* been refreshed on an earlier day.
C29_Witness ==
    /\ call # None
    /\ call[1].site = "A"
    /\ SiteState("A").daily_cache # <<>>
    /\ SiteState("B").daily_cache # <<>>
    /\ SiteState("A").daily_cache # SiteState("B").daily_cache
    /\ SiteState("A").cached_cycle_start = SiteState("B").cached_cycle_start
    /\ SiteState("B").last_update_time = Some(today)
    /\ SiteState("A").last_update_time # None
    /\ SiteState("A").last_update_time # Some(today)

\* The dates of the daily entries of the returned payload.
ReturnedDates == {FromIsoformat(ReturnedDaily[i].date) : i \in DOMAIN ReturnedDaily}

\* The first day of the cycle the returned payload is about.
ReturnedStart == FromIsoformat(returned[1].range_start)

\* C30: in every refresh end is today - 1, today lying before next_start,
\* so the daily sequence of a payload never contains the last day of its
\* billing cycle: days_elapsed <= cycle_length - 1 and days_remaining >= 1 in
\* every payload, and on the first day of the next cycle the payload returned
\* is the previous one, still without that last day.
C30_LastDayNeverIncluded ==
    [][RefreshStep =>
          /\ today < NextStart
          /\ window' = Some(<<Start, today - 1>>)
          /\ (outcome' = "returned") =>
                /\ (ReturnedStart + ReturnedCycleLength - 1 \notin ReturnedDates)'
                /\ (returned[1].totals.days_elapsed <= ReturnedCycleLength - 1)'
                /\ (returned[1].totals.days_remaining >= 1)'
          /\ (today = Start /\ previous_payload # None) =>
                /\ returned' = previous_payload
                /\ (Start - 1 \notin ReturnedDates)']_vars

\* On the first day of a cycle the refresh returned the payload of the last
\* day of the cycle before, whose daily sequence ends two days before the new
\* cycle and whose totals have one day remaining.
C30_Witness ==
    /\ outcome = "returned"
    /\ today = Start
    /\ WindowEnd < WindowStart
    /\ ReturnedDaily # <<>>
    /\ ReturnedStart + ReturnedCycleLength = Start
    /\ FromIsoformat(ReturnedDaily[Len(ReturnedDaily)].date) = Start - 2
    /\ returned[1].totals.days_remaining = 1

\* ------------------------------------------------------------- C31 .. C37

\* The press of the button is the last call recorded, with this result.
Pressed(result) == call = Some([method |-> "async_press", result |-> result])

\* What a refresh reads and writes: everything but the record of the call.
RefreshState == <<today, config, in_flight, sites, daily_cache, cached_cycle_start, cycle_length_current, last_update_time, previous_payload, outcome, returned, window, requests, answered>>

\* C31: the flag of the refresh button is set exactly while the refresh a
\* press started is running: it is set when the press starts the refresh and
\* cleared when that refresh ends, answered or failed; a press that arrives
\* while the flag is set leaves the coordinator as it was; and while the flag
\* is set the button is unavailable, whatever the last update was.
C31_FlagWhileRefreshing ==
    [][/\ refreshing <=> in_flight["manual"] # None
       /\ refreshing' <=> in_flight'["manual"] # None
       /\ \A last_update_success \in BOOLEAN :
             refreshing => ~Available(last_update_success, refreshing)
       /\ (refreshing /\ Pressed("already in progress")' /\ call' # call) =>
             /\ refreshing'
             /\ UNCHANGED RefreshState]_vars

\* A press started a refresh, the fetch of that refresh raised and the flag
\* is cleared again; the periodic refresh is still running.
C31_Witness ==
    /\ Pressed("refresh started")
    /\ ~refreshing
    /\ in_flight["manual"] = None
    /\ in_flight["periodic"] # None
    /\ outcome = "UpdateFailed"

\* C32: the first step of the config flow creates a config entry only when
\* the discovery of the sites raised nothing and returned at least one site;
\* when it raised or returned no site no entry is created and the form is
\* shown again with the error auth or no_site.
C32_EntryOnlyWithSites ==
    [][(Called("async_step_user")' /\ call'[1].user_input # None /\ call' # call) =>
          \A c \in {call'[1]} :
             IF ~c.discovered.raised /\ c.discovered.site_ids # <<>>
             THEN /\ c.result.type = "create_entry"
                  /\ DOMAIN config_entries' # DOMAIN config_entries
             ELSE /\ c.result.type = "form"
                  /\ c.result.errors =
                        AsMap("base" :> IF c.discovered.raised THEN "auth" ELSE "no_site")
                  /\ config_entries' = config_entries]_vars

\* The stored token of an entry, in its data and in its options.
StoredTokens(entry) == <<Get(entry.data, "CONF_TOKEN", ""), Get(entry.options, "CONF_TOKEN", "")>>

\* C33: in the options step, when the submitted token differs from the one in
\* use and the discovery with it raises or returns no site, the entry is left
\* as it was, data, token and options, and the form is shown with the error;
\* the token stored in the data changes only in a step whose discovery with
\* the new token returned at least one site.
C33_TokenOnlyAfterDiscovery ==
    [][(Called("async_step_init")' /\ call' # call) =>
          \A c \in {call'[1]} :
          \A changed \in {c.user_input["CONF_TOKEN"] # c.current_token} :
          \A found \in {~c.discovered.raised /\ c.discovered.site_ids # <<>>} :
             /\ (changed /\ ~found) =>
                   /\ config_entries' = config_entries
                   /\ c.result.type = "form"
             /\ (config_entries'[c.entry_id].data # config_entries[c.entry_id].data) =>
                   /\ changed /\ found
                   /\ config_entries'[c.entry_id].data =
                         With(config_entries[c.entry_id].data, "CONF_TOKEN",
                              c.user_input["CONF_TOKEN"])
             /\ (StoredTokens(config_entries'[c.entry_id]) # StoredTokens(config_entries[c.entry_id])) =>
                   (~changed \/ found)]_vars

\* The options step was submitted with a new token whose discovery raised,
\* for an entry whose token had been replaced before: the entry keeps the
\* token of the earlier, successful step.
C33_Witness ==
    /\ Called("async_step_init")
    /\ call[1].discovered.raised
    /\ call[1].user_input["CONF_TOKEN"] # call[1].current_token
    /\ call[1].result.type = "form"
    /\ \E e \in DOMAIN config_entries :
          /\ e = call[1].entry_id
          /\ StoredTokens(config_entries[e]) = <<call[1].current_token, call[1].current_token>>

\* The text holds the characters s in a row.
Contains(text, s) ==
    \E i \in 0..(Len(text) - Len(s)) : SubSeq(text, i + 1, i + Len(s)) = s

\* The keys whose values are one string, in an entry's data and options and
\* in a site's info.
StringKeys == {"CONF_TOKEN", "CONF_SITE_ID", "id", "nmi", "network"}

\* A dict of the output shows the string under one of its keys.
Shows(d, secret) ==
    \/ \E k \in DOMAIN d \cap StringKeys : d[k] = secret
    \/ /\ "CONF_SITE_IDS" \in DOMAIN d
       /\ \E i \in DOMAIN d["CONF_SITE_IDS"] : d["CONF_SITE_IDS"][i] = secret

\* The output has the entry i for a site whose fetch failed.
FailedAt(out, i) == "error" \in DOMAIN out.sites[i]

\* The dicts of the output.
OutputDicts(out) ==
    {out.config_entry.data, out.config_entry.options}
        \cup {out.sites[i].site_info : i \in {j \in DOMAIN out.sites : ~FailedAt(out, j)}}

\* The texts of the output.
OutputTexts(out) ==
    UNION {{out.sites[i].site_id, out.sites[i].error} :
              i \in {j \in DOMAIN out.sites : FailedAt(out, j)}}

\* C34: the diagnostics of an entry show neither the API token nor the full
\* id or the NMI of a site, in the config data, in the site infos and in the
\* entries of the sites whose fetch failed, whose id is cut to 6 characters
\* and whose error text holds no full id; and every site has its entry, the
\* failure of one site notwithstanding.
C34_DiagnosticsRedacted ==
    Called("async_get_config_entry_diagnostics") =>
        \A c \in {call[1]} :
        \A site_ids \in {EntrySiteIds(c.entry.data)} :
            /\ Len(c.result.sites) = Len(site_ids)
            /\ \A i \in DOMAIN site_ids :
                  /\ FailedAt(c.result, i) <=> c.info_outcomes[i] # "ok"
                  /\ FailedAt(c.result, i) =>
                        c.result.sites[i].site_id = Take(Characters(site_ids[i]), 6) \o <<"...">>
            /\ \A d \in OutputDicts(c.result) :
                  /\ ~Shows(d, CurrentToken(c.entry))
                  /\ \A s \in Sites : ~Shows(d, s) /\ ~Shows(d, Nmi(s))
            /\ \A text \in OutputTexts(c.result) :
               \A i \in DOMAIN site_ids : ~Contains(text, Characters(site_ids[i]))

\* The value within [lo, hi] that is nearest to the given one.
Nearest(lo, hi, given) == IF given < lo THEN lo ELSE IF given > hi THEN hi ELSE given

\* C35: a value a fee number is set to is brought into the range of the
\* entity before it becomes its native value; it is written to the options of
\* the config entry exactly when the entity had been added (it is ready for
\* updates) and the host is running, and that write sets the entity's own
\* option key to the value and leaves every other key, and every other
\* entry, as it was; otherwise the config entries are as before.
C35_NumberClampedAndPersisted ==
    [][AsyncSetNativeValue =>
          \A c \in {call'[1]} :
          \A k \in {c.entity} :
          \A value \in {Nearest(numbers[k]._attr_native_min_value,
                                numbers[k]._attr_native_max_value, c.value)} :
          \A options \in {config_entries[k[1]].options} :
             /\ numbers'[k]._attr_native_value = value
             /\ value \in numbers[k]._attr_native_min_value..numbers[k]._attr_native_max_value
             /\ c.persisted <=> (numbers[k]._ready_for_updates /\ is_running)
             /\ \A e \in DOMAIN config_entries \ {k[1]} : config_entries'[e] = config_entries[e]
             /\ config_entries'[k[1]].data = config_entries[k[1]].data
             /\ IF c.persisted
                THEN /\ DOMAIN config_entries'[k[1]].options = DOMAIN options \cup {k[2]}
                     /\ config_entries'[k[1]].options[k[2]] = value
                     /\ \A o \in DOMAIN options \ {k[2]} :
                           config_entries'[k[1]].options[o] = options[o]
                ELSE config_entries' = config_entries]_vars

\* A fee number that is ready was set to a value above its range while the
\* host was running: the options hold the upper limit under its key, next to
\* the token and the other fee, which was written before.
C35_Witness ==
    /\ Called("async_set_native_value")
    /\ call[1].value > NativeMax
    /\ call[1].persisted
    /\ call[1].entity = <<"e2", "CONF_SURCHARGE_CENTS">>
    /\ config_entries["e2"].options =
          [CONF_TOKEN |-> "t2", CONF_SUBSCRIPTION |-> 7, CONF_SURCHARGE_CENTS |-> NativeMax]
    /\ numbers[<<"e2", "CONF_SURCHARGE_CENTS">>]._attr_native_value = NativeMax

\* The sites of the entry.
SitesOfEntry(e) ==
    {EntrySiteIds(config_entries[e].data)[i] : i \in DOMAIN EntrySiteIds(config_entries[e].data)}

\* The sites in the site map of the entry, none when there is no bucket.
SitesInMap(e) ==
    IF e \in DOMAIN DomainData /\ "sites" \in DOMAIN DomainData[e]
    THEN DOMAIN DomainData[e].sites
    ELSE {}

\* C36: the sensor platform of an entry is forwarded, and has ended, before
\* the number and the button platform are; when one of these two is set up
\* the site map of the entry holds a coordinator for every site of the entry,
\* unless the bucket or the map is missing or empty, and then, and only then,
\* the platform raises ConfigEntryNotReady and creates no entity.
C36_SensorsBeforeDependants ==
    \A e \in DOMAIN config_entries :
    \A p \in {"number", "button"} \cap Forwarded(e) :
        /\ platforms[e][1].platform = "sensor"
        /\ PlatformResult(e, p).raised <=> SitesInMap(e) = {}
        /\ PlatformResult(e, p).raised => PlatformResult(e, p).entities = {}
        /\ ~PlatformResult(e, p).raised => SitesInMap(e) = SitesOfEntry(e)

\* C37: unloading an entry removes the bucket of the entry from the domain
\* data if and only if the platforms were unloaded, leaves the bucket of
\* every other entry as it was, and removes the key of the domain exactly
\* when no bucket remains.
C37_UnloadRemovesOwnBucket ==
    [][AsyncUnloadEntry =>
          \A c \in {call'[1]} :
          \A before \in {DomainData} :
             /\ c.entry_id \in DOMAIN before
             /\ (c.entry_id \notin DOMAIN DomainData') <=> c.unload_ok
             /\ \A o \in DOMAIN before \ {c.entry_id} :
                   o \in DOMAIN DomainData' /\ DomainData'[o] = before[o]
             /\ DOMAIN DomainData' \subseteq DOMAIN before
             /\ (hass_data' = None) <=> (DOMAIN DomainData' = {})]_vars

\* An entry was unloaded while another entry was set up: the bucket of the
\* other entry is all that is left of the domain data.
C37_Witness ==
    /\ Called("async_unload_entry")
    /\ call[1].unload_ok
    /\ call[1].entry_id = "e1"
    /\ hass_data # None
    /\ DOMAIN hass_data[1] = {"e2"}
    /\ DOMAIN hass_data[1]["e2"].sites = {"B"}

====
